---- MODULE Spec2Model ----
(***************************************************************************)
(* go_ntrip: the streaming RTCM3 / UBX frame parsers (internal/parser),    *)
(* the RTK processor (internal/rtk) and the position averager              *)
(* (internal/position), as state machines.                                 *)
(*                                                                         *)
(* Bytes are integers 0..255.  A Go slice is a sequence, a Go map is a     *)
(* function whose DOMAIN is the set of keys present, a Go map value held   *)
(* by several owners is a reference into mapHeap.                          *)
(***************************************************************************)
EXTENDS Integers, Sequences, FiniteSets, TLC

VARIABLES
    \* ---- internal/parser: one parser instance under test, fed a stream
    pKind,          \* which parser the stream is fed to: "rtcm" or "ubx"
    pItems,         \* the stream as built: a sequence of [kind, bytes, msg]
    pFed,           \* number of bytes of the stream passed to Process so far
    pCalls,         \* number of Process calls made so far
    rtcmBuffer,     \* RTCMParser.buffer
    rtcmEmitted,   \* the results of all RTCMParser.Process calls, concatenated
    ubxBuffer,      \* UBXParser.buffer
    ubxEmitted,    \* the results of all UBXParser.Process calls, concatenated
    \* ---- internal/rtk: one Processor
    mode,           \* Processor.mode: "static" or "kinematic"
    rtcmData,       \* Processor.rtcmData
    solutions,      \* Processor.solutions
    lastSolution,   \* Processor.lastSolution (Nil or a solution)
    solutionChan,   \* Processor.solutionChan: the queued solutions, oldest first
    basePosition,   \* Processor.basePosition (Nil or a position)
    rtcmMessages,   \* Processor.rtcmMessages: message number -> latest message
    observations,   \* Processor.observations
    ephemeris,      \* Processor.ephemeris: satellite ID -> message 1019
    clock,          \* time.Now(): advances with every ProcessRTCM call
    procItems,      \* the correction stream as built: a sequence of frames
    procFed,        \* number of bytes of it passed to ProcessRTCM so far
    received,       \* what the consumer has taken from the solution channel
    \* ---- internal/position: one PositionAverager and its caller
    minFixQuality,  \* PositionAverager.minFixQuality
    samples,        \* PositionAverager.samples
    fixQualityDist, \* PositionAverager.fixQualityDist: a reference into mapHeap
    mapHeap,        \* the Go maps allocated: reference -> (fix quality -> count)
    lastCall,       \* the caller's last operation and its argument
    ret,            \* what that operation returned
    callerDist,     \* the map the caller keeps from GetFixQualityDistribution (0: none)
    avgLog,         \* the samples passed to AddSample since construction or Reset
    \* ---- internal/ui: one NTRIP session of the CLI
    session,        \* the function running: "getNtripPosition" or "getAveragedPosition"
    goroutine,      \* where each goroutine of the session is
    streamOpen,     \* the NTRIP stream has not been closed
    currentCount,   \* getAveragedPosition, ntrip-avg: the count of accepted samples
    \* ---- internal/device MonitorNMEA and cmd/ntrip-avg: the sentence loop
    nmeaLoop,       \* the loop running: "MonitorNMEA" or "ntrip-avg"
    nmeaItems,      \* the text the receiver sends, as built
    nmeaFed,        \* number of characters of it read so far
    dataBuffer,     \* dataBuffer
    handed,         \* the sentences passed to NMEAParser.Parse so far
    handled,        \* MonitorNMEA: the parsed sentences given to the handler
    nmeaReturned,   \* ntrip-avg: the loop returned, having its samples
    \* ---- pkg/ntrip: one RTKProcessor
    rtkRunning,     \* RTKProcessor.running
    rtkSolutions,   \* RTKProcessor.solutions
    rtkFixCount,    \* RTKProcessor.fixCount
    rtkSvr,         \* the RTK server of the library: initialised, started or stopped
    rtkMonitors,    \* the monitorSolutions goroutines that have not returned
    rtkRet,         \* the caller's last call of the processor and its result
    rtkCalls,       \* number of calls made so far
    \* ---- pkg/ntrip: one Client
    connected,      \* Client.connected
    ntripStream,    \* Client.stream: zero, initialised, open or closed
    clientRet,      \* the caller's last call of the client and its result
    clientCalls,    \* number of calls made so far
    \* ---- internal/ntrip: one sourcetable request
    stData,         \* the body of the caster's answer
    stTable,        \* the Sourcetable returned, Nil before the answer is parsed
    \* ---- TOPGNSSDevice: monitoring
    monitor,        \* position of each goroutine started by MonitorNMEA
    stopMonitoring, \* position of the caller of StopMonitoring
    monHandled,     \* number of HandleNMEA invocations so far
    monHandledAtStop, \* monHandled when StopMonitoring returned
    \* ---- the simulator GNSSReceiver
    simRunning,     \* GNSSReceiver.running
    simStopClosed,  \* whether stopChan is closed
    simQueued,      \* number of messages in dataQueue
    simQueueClosed, \* whether dataQueue is closed
    generator,      \* position of each generateData goroutine
    simPanic,       \* the panic that ended the process, "none" while it runs
    simRet,         \* the caller's last call of the receiver and its result
    simCalls,       \* number of Start, Stop and Close calls so far
    \* ---- cmd/rtk2go-test: the RTKApp
    appPhase,       \* new, started (Start returned) or stopped (Stop returned)
    appStopChan,    \* app.stopChan: open or closed
    appLoop,        \* position of monitorConnection and of monitorSolutions
    appConnected,   \* ntripClient.IsConnected()
    appReconnects,  \* reconnection attempts so far
    nmeaBuffer,     \* app.nmeaBuffer
    appStatus,      \* app.status
    appStream,      \* what the device will still deliver, read by read
    appReceived,    \* what the device has delivered so far
    appFound        \* what the last processNMEAData returned

parserVars == <<pKind, pItems, pFed, pCalls, rtcmBuffer, rtcmEmitted, ubxBuffer, ubxEmitted>>

procVars == <<mode, rtcmData, solutions, lastSolution, solutionChan, basePosition,
              rtcmMessages, observations, ephemeris, clock, procItems, procFed, received>>

avgVars == <<minFixQuality, samples, fixQualityDist, mapHeap, lastCall, ret,
             callerDist, avgLog>>

sessVars == <<session, goroutine, streamOpen, currentCount>>

nmeaVars == <<nmeaLoop, nmeaItems, nmeaFed, dataBuffer, handed, handled, nmeaReturned>>

\* The variables of the other components, for those of internal/ui and for
\* those of the sentence loop.
rtkVars == <<rtkRunning, rtkSolutions, rtkFixCount, rtkSvr, rtkMonitors, rtkRet, rtkCalls>>

clientVars == <<connected, ntripStream, clientRet, clientCalls>>

stVars == <<stData, stTable>>

devVars == <<monitor, stopMonitoring, monHandled, monHandledAtStop>>

simVars == <<simRunning, simStopClosed, simQueued, simQueueClosed, generator, simPanic,
            simRet, simCalls>>

appVars == <<appPhase, appStopChan, appLoop, appConnected, appReconnects, nmeaBuffer,
            appStatus, appStream, appReceived, appFound>>

sessOthers == <<nmeaVars, rtkVars, clientVars, stVars, devVars, simVars, appVars>>

nmeaOthers == <<session, goroutine, streamOpen, currentCount, rtkVars, clientVars, stVars, devVars, simVars, appVars>>

rtkOthers == <<sessVars, nmeaVars, clientVars, stVars, devVars, simVars, appVars>>

clientOthers == <<sessVars, nmeaVars, rtkVars, stVars, devVars, simVars, appVars>>

stOthers == <<sessVars, nmeaVars, rtkVars, clientVars, devVars, simVars, appVars>>

devOthers == <<sessVars, nmeaVars, rtkVars, clientVars, stVars, simVars, appVars>>

simOthers == <<sessVars, nmeaVars, rtkVars, clientVars, stVars, devVars, appVars>>

appOthers == <<sessVars, nmeaVars, rtkVars, clientVars, stVars, devVars, simVars>>

extVars == <<sessVars, nmeaVars, rtkVars, clientVars, stVars, devVars, simVars, appVars>>

vars == <<parserVars, procVars, avgVars, extVars>>

\* -------------------------------------------------------------------------
\* Bounds of the model
\* -------------------------------------------------------------------------
MaxItems == 2       \* frames / junk runs per input stream
MaxPayload == 2     \* payload bytes per generated frame
MaxFrames == 2      \* frames per correction stream fed to the Processor
ChunkUnit == 4      \* the transport delivers the stream in multiples of this
MaxCalls == 12      \* ProcessRTCM calls when the solution channel is flooded
MaxAdds == 3        \* AddSample calls between two Resets
MaxSplits == 1      \* places a stream is cut at when single calls are examined
MaxBatches == 3     \* reads that deliver several frames at once
MaxClientCalls == 6 \* calls of the Client
MaxRead == 2        \* len(p) of a Client.Read(p)
MaxLines == 3       \* lines of a caster's answer
MinSTRFields == 15  \* fields of a STR; line that parseSourcetable accepts
MaxMonitors == 3    \* goroutines started by MonitorNMEA
MaxHandled == 2     \* invocations of the handler
MaxSimCalls == 4    \* Start, Stop and Close calls of the simulator
QueueCap == 2       \* capacity of dataQueue (100 in the code)
MaxAppReads == 2    \* reads of the device by monitorSolutions
MaxReconnects == 2  \* reconnection attempts of monitorConnection
NMEABufferLimit == 16384 \* bytes processNMEAData keeps of app.nmeaBuffer
MaxRtkCalls == 4    \* calls of the RTKProcessor
MaxTicks == 2       \* solutions a monitorSolutions goroutine counts
MaxText == 7        \* characters of a sentence Parse is tried on
MaxSentences == 2   \* texts the receiver sends to a sentence loop
MaxReads == 3       \* frames the caster sends in a CLI session
SampleCount == 2    \* getAveragedPosition: the number of samples asked for

\* -------------------------------------------------------------------------
\* Sequences and bits
\* -------------------------------------------------------------------------
Drop(s, n) == SubSeq(s, n + 1, Len(s))

RECURSIVE Flatten(_)
Flatten(ss) == IF ss = <<>> THEN <<>> ELSE Head(ss) \o Flatten(Tail(ss))

\* Exclusive or of two bits, of two hexadecimal digits (a table), and of
\* two 24-bit words.
XorBit(a, b) == (a + b) % 2

XorDigit ==
    [a \in 0..15, b \in 0..15 |->
        XorBit(a % 2, b % 2) + 2 * XorBit((a \div 2) % 2, (b \div 2) % 2)
        + 4 * XorBit((a \div 4) % 2, (b \div 4) % 2) + 8 * XorBit(a \div 8, b \div 8)]

Xor(a, b) ==
    XorDigit[a % 16, b % 16]
    + 16 * XorDigit[(a \div 16) % 16, (b \div 16) % 16]
    + 256 * XorDigit[(a \div 256) % 16, (b \div 256) % 16]
    + 4096 * XorDigit[(a \div 4096) % 16, (b \div 4096) % 16]
    + 65536 * XorDigit[(a \div 65536) % 16, (b \div 65536) % 16]
    + 1048576 * XorDigit[(a \div 1048576) % 16, (b \div 1048576) % 16]

\* -------------------------------------------------------------------------
\* The wire formats, as the senders produce them (spec 4.2, 4.3).  These
\* build the input streams; the parsers below never call them.
\* -------------------------------------------------------------------------
\* (An intermediate value is bound as "x \in {e}" so that it is evaluated
\* once, not at every use.)
RECURSIVE Crc24qShift(_, _)
Crc24qShift(crc, n) ==
    IF n = 0 THEN crc
    ELSE CHOOSE r \in { Crc24qShift(IF s >= 16777216 THEN Xor(s - 16777216, 8801531) ELSE s,
                                    m - 1) : s \in {crc * 2}, m \in {n} } : TRUE

RECURSIVE Crc24q(_, _)
Crc24q(bytes, crc) ==
    IF bytes = <<>> THEN crc
    ELSE CHOOSE r \in { Crc24q(Tail(bytes), c)
                        : c \in {Crc24qShift(Xor(crc, Head(bytes) * 65536), 8)} } : TRUE

RTCMEncode(payload) ==
    LET header == <<211, Len(payload) \div 256, Len(payload) % 256>> \o payload
        q      == Crc24q(header, 0)
    IN  header \o <<q \div 65536, (q \div 256) % 256, q % 256>>

RECURSIVE UBXChecksum(_, _, _)
UBXChecksum(bytes, ckA, ckB) ==
    IF bytes = <<>> THEN <<ckA, ckB>>
    ELSE LET a == (ckA + Head(bytes)) % 256
         IN  UBXChecksum(Tail(bytes), a, (ckB + a) % 256)

UBXEncode(class, id, payload) ==
    LET body == <<class, id, Len(payload) % 256, Len(payload) \div 256>> \o payload
    IN  <<181, 98>> \o body \o UBXChecksum(body, 0, 0)

\* -------------------------------------------------------------------------
\* internal/parser/rtcm.go
\* -------------------------------------------------------------------------
RTCMMessage(buf, length) ==
    [ MessageType |-> buf[4] * 16 + (buf[5] \div 16),
      Length      |-> length,
      Payload     |-> SubSeq(buf, 4, 3 + length),
      Valid       |-> TRUE ]

\* RTCMScan with the two "wait for more data" exits dropping the head byte
\* instead of keeping the buffer.
RECURSIVE RTCMScanNoWait(_, _)
RTCMScanNoWait(buf, msgs) ==
    IF Len(buf) < 3 THEN [buffer |-> buf, messages |-> msgs]
    ELSE IF buf[1] = 211 /\ Len(buf) >= 6
                         /\ Len(buf) >= (buf[2] % 4) * 256 + buf[3] + 6
         THEN LET length == (buf[2] % 4) * 256 + buf[3]
              IN  RTCMScanNoWait(Drop(buf, length + 6),
                                 Append(msgs, RTCMMessage(buf, length)))
         ELSE RTCMScanNoWait(Tail(buf), msgs)

\* RTCMScan keeping a head byte that is not the preamble instead of
\* skipping it.
RECURSIVE RTCMScanKeepsJunk(_, _)
RTCMScanKeepsJunk(buf, msgs) ==
    IF Len(buf) < 3 THEN [buffer |-> buf, messages |-> msgs]
    ELSE IF buf[1] = 211
         THEN IF Len(buf) < 6 THEN [buffer |-> buf, messages |-> msgs]
              ELSE LET length      == (buf[2] % 4) * 256 + buf[3]
                       totalLength == length + 6
                   IN  IF Len(buf) >= totalLength
                       THEN RTCMScanKeepsJunk(Drop(buf, totalLength),
                                              Append(msgs, RTCMMessage(buf, length)))
                       ELSE [buffer |-> buf, messages |-> msgs]
         ELSE [buffer |-> buf, messages |-> msgs]

\* The loop of RTCMParser.Process: the buffer and the messages it ends with.
RECURSIVE RTCMScan(_, _)
RTCMScan(buf, msgs) ==
    IF Len(buf) < 3 THEN [buffer |-> buf, messages |-> msgs]
    ELSE IF buf[1] = 211
         THEN IF Len(buf) < 6 THEN [buffer |-> buf, messages |-> msgs]
              ELSE LET length      == (buf[2] % 4) * 256 + buf[3]
                       totalLength == length + 6
                   IN  IF Len(buf) >= totalLength
                       THEN RTCMScan(Drop(buf, totalLength),
                                     Append(msgs, RTCMMessage(buf, length)))
                       ELSE [buffer |-> buf, messages |-> msgs]
         ELSE RTCMScan(Tail(buf), msgs)

\* RTCMParser.Process(data): append, scan, return the messages of this call.
RTCMProcess(data) ==
    LET r == RTCMScan(rtcmBuffer \o data, <<>>)
    IN  /\ rtcmBuffer' = r.buffer
        /\ rtcmEmitted' = rtcmEmitted \o r.messages

\* -------------------------------------------------------------------------
\* internal/parser/ubx.go
\* -------------------------------------------------------------------------
UBXMessage(buf, payloadLength) ==
    [ Class   |-> buf[3],
      ID      |-> buf[4],
      Length  |-> payloadLength,
      Payload |-> SubSeq(buf, 7, 6 + payloadLength),
      Valid   |-> TRUE ]

RECURSIVE UBXScan(_, _)
UBXScan(buf, msgs) ==
    IF Len(buf) < 6 THEN [buffer |-> buf, messages |-> msgs]
    ELSE IF buf[1] = 181 /\ buf[2] = 98
         THEN LET payloadLength == (buf[5] + buf[6] * 256) % 65536
                  totalLength   == payloadLength + 8
              IN  IF Len(buf) >= totalLength
                  THEN UBXScan(Drop(buf, totalLength),
                               Append(msgs, UBXMessage(buf, payloadLength)))
                  ELSE [buffer |-> buf, messages |-> msgs]
         ELSE UBXScan(Tail(buf), msgs)

UBXProcess(data) ==
    LET r == UBXScan(ubxBuffer \o data, <<>>)
    IN  /\ ubxBuffer' = r.buffer
        /\ ubxEmitted' = ubxEmitted \o r.messages

\* -------------------------------------------------------------------------
\* The loops of the two Process methods, one iteration at a time
\* -------------------------------------------------------------------------
\* An iteration is the loop test and, if it passes, the loop body: exit says
\* the loop is left, buffer and messages are what the iteration leaves and
\* appends, top is the highest byte position of the buffer it indexes or
\* slices up to.

\* The iteration of RTCMParser.Process without its "wait for more data" test.
RTCMIterationNoLengthTest(buf) ==
    IF Len(buf) < 3 THEN [exit |-> TRUE, buffer |-> buf, messages |-> <<>>, top |-> 0]
    ELSE IF buf[1] = 211
         THEN IF Len(buf) < 6
              THEN [exit |-> TRUE, buffer |-> buf, messages |-> <<>>, top |-> 1]
              ELSE LET length      == (buf[2] % 4) * 256 + buf[3]
                       totalLength == length + 6
                       have        == IF Len(buf) < 3 + length THEN Len(buf) ELSE 3 + length
                   IN  [exit |-> FALSE,
                        buffer |-> IF Len(buf) >= totalLength THEN Drop(buf, totalLength)
                                   ELSE <<>>,
                        messages |-> <<[MessageType |-> buf[4] * 16 + (buf[5] \div 16),
                                        Length |-> length,
                                        Payload |-> SubSeq(buf, 4, have),
                                        Valid |-> TRUE]>>,
                        top |-> totalLength]
         ELSE [exit |-> FALSE, buffer |-> Tail(buf), messages |-> <<>>, top |-> 1]

\* One iteration of the loop of RTCMParser.Process.
RTCMIteration(buf) ==
    IF Len(buf) < 3 THEN [exit |-> TRUE, buffer |-> buf, messages |-> <<>>, top |-> 0]
    ELSE IF buf[1] = 211
         THEN IF Len(buf) < 6
              THEN [exit |-> TRUE, buffer |-> buf, messages |-> <<>>, top |-> 1]
              ELSE LET length      == (buf[2] % 4) * 256 + buf[3]
                       totalLength == length + 6
                   IN  IF Len(buf) >= totalLength
                       THEN [exit |-> FALSE, buffer |-> Drop(buf, totalLength),
                             messages |-> <<RTCMMessage(buf, length)>>, top |-> totalLength]
                       ELSE [exit |-> TRUE, buffer |-> buf, messages |-> <<>>, top |-> 3]
         ELSE [exit |-> FALSE, buffer |-> Tail(buf), messages |-> <<>>, top |-> 1]

\* The buffers at the successive loop tests of RTCMParser.Process.
RECURSIVE RTCMLoop(_)
RTCMLoop(buf) ==
    CHOOSE heads \in { IF it.exit THEN <<b>> ELSE <<b>> \o RTCMLoop(it.buffer)
                       : it \in {RTCMIteration(buf)}, b \in {buf} } : TRUE

\* One iteration of the loop of UBXParser.Process.
UBXIteration(buf) ==
    IF Len(buf) < 6 THEN [exit |-> TRUE, buffer |-> buf, messages |-> <<>>, top |-> 0]
    ELSE IF buf[1] = 181 /\ buf[2] = 98
         THEN LET payloadLength == (buf[5] + buf[6] * 256) % 65536
                  totalLength   == payloadLength + 8
              IN  IF Len(buf) >= totalLength
                  THEN [exit |-> FALSE, buffer |-> Drop(buf, totalLength),
                        messages |-> <<UBXMessage(buf, payloadLength)>>, top |-> totalLength]
                  ELSE [exit |-> TRUE, buffer |-> buf, messages |-> <<>>, top |-> 6]
         ELSE [exit |-> FALSE, buffer |-> Tail(buf), messages |-> <<>>,
               top |-> IF buf[1] = 181 THEN 2 ELSE 1]

\* The buffers at the successive loop tests of UBXParser.Process.
RECURSIVE UBXLoop(_)
UBXLoop(buf) ==
    CHOOSE heads \in { IF it.exit THEN <<b>> ELSE <<b>> \o UBXLoop(it.buffer)
                       : it \in {UBXIteration(buf)}, b \in {buf} } : TRUE

\* -------------------------------------------------------------------------
\* The streams fed to a parser: valid frames, frames with one payload bit
\* flipped in transit, and runs of bytes that are no frame.
\* -------------------------------------------------------------------------
\* One payload per length: 0x3E, 0xD3, 0xD3, ... (two bytes give type 1005;
\* the later bytes equal the RTCM3 preamble).
Payloads == { [i \in 1..n |-> IF i = 1 THEN 62 ELSE 211] : n \in 0..MaxPayload }

FlipBit(payload) == [payload EXCEPT ![1] = Xor(@, 1)]

RTCMValidItems ==
    { [kind |-> "valid", bytes |-> RTCMEncode(p),
       msg |-> [MessageType |-> RTCMEncode(p)[4] * 16 + (RTCMEncode(p)[5] \div 16),
                Length |-> Len(p), Payload |-> p, Valid |-> TRUE]] : p \in Payloads }

RTCMCorruptItems ==
    { [kind |-> "corrupt",
       bytes |-> SubSeq(RTCMEncode(p), 1, 3) \o FlipBit(p)
                   \o SubSeq(RTCMEncode(p), 4 + Len(p), 6 + Len(p)),
       msg |-> <<>>] : p \in Payloads \ {<<>>} }

RTCMJunkItems ==
    { [kind |-> "junk", bytes |-> b, msg |-> <<>>] : b \in {<<0>>, <<211, 0, 1>>} }

UBXValidItems ==
    { [kind |-> "valid", bytes |-> UBXEncode(1, 7, p),
       msg |-> [Class |-> 1, ID |-> 7, Length |-> Len(p), Payload |-> p, Valid |-> TRUE]]
      : p \in Payloads }

UBXCorruptItems ==
    { [kind |-> "corrupt",
       bytes |-> SubSeq(UBXEncode(1, 7, p), 1, 6) \o FlipBit(p)
                   \o SubSeq(UBXEncode(1, 7, p), 7 + Len(p), 8 + Len(p)),
       msg |-> <<>>] : p \in Payloads \ {<<>>} }

UBXJunkItems ==
    { [kind |-> "junk", bytes |-> b, msg |-> <<>>]
      : b \in {<<0>>, <<181>>, <<181, 98, 1, 7, 0, 0>>} }

ItemsOf(kind) ==
    IF kind = "rtcm" THEN RTCMValidItems \cup RTCMCorruptItems \cup RTCMJunkItems
    ELSE UBXValidItems \cup UBXCorruptItems \cup UBXJunkItems

Streams(kind) == UNION { [1..n -> ItemsOf(kind)] : n \in 1..MaxItems }

pStream == Flatten([i \in 1..Len(pItems) |-> pItems[i].bytes])

ParserInit ==
    /\ pKind \in {"rtcm", "ubx"}
    /\ pItems \in Streams(pKind)
    /\ pFed = 0
    /\ pCalls = 0
    /\ rtcmBuffer = <<>>
    /\ rtcmEmitted = <<>>
    /\ ubxBuffer = <<>>
    /\ ubxEmitted = <<>>

\* One read of the transport: the next n bytes of the stream go to Process.
FeedRTCM ==
    /\ pKind = "rtcm"
    /\ \E n \in 1..(Len(pStream) - pFed) :
          /\ RTCMProcess(SubSeq(pStream, pFed + 1, pFed + n))
          /\ pFed' = pFed + n
          /\ pCalls' = pCalls + 1
    /\ UNCHANGED <<pKind, pItems, ubxBuffer, ubxEmitted>>
    /\ UNCHANGED <<procVars, avgVars, extVars>>

FeedUBX ==
    /\ pKind = "ubx"
    /\ \E n \in 1..(Len(pStream) - pFed) :
          /\ UBXProcess(SubSeq(pStream, pFed + 1, pFed + n))
          /\ pFed' = pFed + n
          /\ pCalls' = pCalls + 1
    /\ UNCHANGED <<pKind, pItems, rtcmBuffer, rtcmEmitted>>
    /\ UNCHANGED <<procVars, avgVars, extVars>>

\* -------------------------------------------------------------------------
\* internal/rtk (processor.go): the Processor
\* -------------------------------------------------------------------------
Nil == [nil |-> TRUE]

StatusNone == 0
StatusSingle == 1
StatusDGPS == 2
StatusFloat == 5
StatusFix == 4

\* The frame scanner and message decoder of the rtcm3 library the Processor
\* calls: the payloads of the complete frames of data whose CRC-24Q matches;
\* it stops at a frame that is not complete yet.
RECURSIVE NextFrames(_, _)
NextFrames(data, frames) ==
    IF Len(data) < 6 THEN frames
    ELSE IF data[1] # 211 THEN NextFrames(Tail(data), frames)
    ELSE LET length == (data[2] % 4) * 256 + data[3]
             crc    == Crc24q(SubSeq(data, 1, 3 + length), 0)
         IN  IF Len(data) < length + 6 THEN frames
             ELSE IF /\ data[4 + length] = crc \div 65536
                     /\ data[5 + length] = (crc \div 256) % 256
                     /\ data[6 + length] = crc % 256
                  THEN NextFrames(Drop(data, length + 6),
                                  Append(frames, SubSeq(data, 4, 3 + length)))
                  ELSE NextFrames(Tail(data), frames)

\* A message as the Processor reads it: its number, and the fields of it that
\* matter here, taken from the low four bits of the second payload byte
\* (for an ephemeris, two bits of satellite ID and two of issue of data).
DeserializeMessage(payload) ==
    LET number == payload[1] * 16 + (payload[2] \div 16)
        arg    == payload[2] % 16
    IN  CASE number = 1004 -> [Number |-> 1004, Type |-> "Message1004", Satellites |-> arg]
          [] number = 1019 -> [Number |-> 1019, Type |-> "Message1019",
                               SatelliteID |-> arg % 4, IODE |-> arg \div 4]
          [] number = 1005 -> [Number |-> 1005, Type |-> "Message1005", X |-> arg, Y |-> 0, Z |-> 0]
          [] number = 1006 -> [Number |-> 1006, Type |-> "Message1006", X |-> arg, Y |-> 0, Z |-> 0]
          [] OTHER         -> [Number |-> number, Type |-> "Message"]

SerializeMessage(number, arg) == RTCMEncode(<<number \div 16, (number % 16) * 16 + arg>>)

\* parseRTCMData: every frame of data, deserialized; its error is always nil.
parseRTCMData(data) ==
    LET frames == NextFrames(data, <<>>)
    IN  [i \in 1..Len(frames) |-> DeserializeMessage(frames[i])]

\* Writing key k of a Go map.
MapPut(m, k, v) == [x \in (DOMAIN m) \cup {k} |-> IF x = k THEN v ELSE m[x]]

\* ecefToLatLonAlt: the geodetic coordinates of an ECEF point, uninterpreted.
ecefToLatLonAlt(x, y, z) ==
    [lat |-> [conv |-> "lat", of |-> <<x, y, z>>],
     lon |-> [conv |-> "lon", of |-> <<x, y, z>>],
     alt |-> [conv |-> "alt", of |-> <<x, y, z>>]]

\* A float64 literal of the source, as numerator and denominator.
Float(num, den) == [conv |-> "const", of |-> <<num, den>>]

\* The aggregator state processRTCMMessages works on.
ProcState == [rtcmMessages |-> rtcmMessages, observations |-> observations,
              ephemeris |-> ephemeris, basePosition |-> basePosition]

\* processRTCMMessage with a window that, once full, takes no new observation.
processRTCMMessageKeepOldest(st, msg, now) ==
    LET st1 == [st EXCEPT !.rtcmMessages = MapPut(@, msg.Number, msg)]
    IN  CASE msg.Number = 1004 ->
               [st1 EXCEPT !.observations = IF Len(@) >= 10 THEN @ ELSE Append(@, msg)]
          [] msg.Number = 1019 ->
               [st1 EXCEPT !.ephemeris = MapPut(@, msg.SatelliteID, msg)]
          [] OTHER -> st1

\* processRTCMMessage with a table that keeps a satellite's first ephemeris.
processRTCMMessageKeepFirstEphemeris(st, msg, now) ==
    LET st1 == [st EXCEPT !.rtcmMessages = MapPut(@, msg.Number, msg)]
    IN  CASE msg.Number = 1004 ->
               LET obs == Append(st1.observations, msg)
               IN  [st1 EXCEPT !.observations =
                       IF Len(obs) > 10 THEN SubSeq(obs, Len(obs) - 9, Len(obs)) ELSE obs]
          [] msg.Number = 1019 ->
               IF msg.SatelliteID \in DOMAIN st1.ephemeris THEN st1
               ELSE [st1 EXCEPT !.ephemeris = MapPut(@, msg.SatelliteID, msg)]
          [] OTHER -> st1

\* One iteration of the loop of processRTCMMessages.
processRTCMMessage(st, msg, now) ==
    LET st1 == [st EXCEPT !.rtcmMessages = MapPut(@, msg.Number, msg)]
    IN  CASE msg.Number = 1004 ->
               IF msg.Type = "Message1004"
               THEN LET obs == Append(st1.observations, msg)
                    IN  [st1 EXCEPT !.observations =
                            IF Len(obs) > 10 THEN SubSeq(obs, Len(obs) - 9, Len(obs)) ELSE obs]
               ELSE st1
          [] msg.Number = 1019 ->
               IF msg.Type = "Message1019"
               THEN [st1 EXCEPT !.ephemeris = MapPut(@, msg.SatelliteID, msg)]
               ELSE st1
          [] msg.Number \in {1005, 1006} ->
               IF mode = "static" /\ msg.Type = "Message1005"
               THEN LET g == ecefToLatLonAlt(msg.X, msg.Y, msg.Z)
                    IN  [st1 EXCEPT !.basePosition =
                            [Latitude |-> g.lat, Longitude |-> g.lon, Altitude |-> g.alt,
                             FixQuality |-> StatusFix, Timestamp |-> now,
                             Description |-> "RTCM Base Station Position"]]
               ELSE st1
          [] OTHER -> st1

RECURSIVE processRTCMMessages(_, _, _)
processRTCMMessages(st, messages, now) ==
    IF messages = <<>> THEN st
    ELSE processRTCMMessages(processRTCMMessage(st, Head(messages), now), Tail(messages), now)

\* computeFixStatus with strict comparisons.
computeFixStatusStrict(numSats) ==
    IF numSats > 5 THEN StatusFix
    ELSE IF numSats > 4 THEN StatusFloat
    ELSE IF numSats > 3 THEN StatusDGPS
    ELSE IF numSats > 2 THEN StatusSingle
    ELSE StatusNone

computeFixStatus(numSats) ==
    IF numSats >= 5 THEN StatusFix
    ELSE IF numSats >= 4 THEN StatusFloat
    ELSE IF numSats >= 3 THEN StatusDGPS
    ELSE IF numSats >= 2 THEN StatusSingle
    ELSE StatusNone

computeHDOP(numSats) == IF numSats <= 0 THEN Float(999, 10) ELSE Float(5, numSats)

\* computeRTKSolution answering with an empty solution where it has no data.
computeRTKSolutionAlways(st, now) ==
    IF mode = "static" /\ st.basePosition # Nil
    THEN [ok |-> TRUE,
          solution |-> [Status |-> StatusFix,
                        Latitude |-> st.basePosition.Latitude,
                        Longitude |-> st.basePosition.Longitude,
                        Altitude |-> st.basePosition.Altitude,
                        Time |-> now,
                        NumSats |-> Cardinality(DOMAIN st.ephemeris),
                        HDOP |-> Float(8, 10)]]
    ELSE LET numSats == IF Len(st.observations) > 0
                        THEN st.observations[Len(st.observations)].Satellites
                        ELSE 0
         IN  [ok |-> TRUE,
              solution |-> [Status |-> computeFixStatus(numSats),
                            Latitude |-> Float(515074, 10000),
                            Longitude |-> Float(-1278, 10000),
                            Altitude |-> Float(45, 1),
                            Time |-> now,
                            NumSats |-> numSats,
                            HDOP |-> computeHDOP(numSats)]]

\* computeRTKSolution: [ok, solution]; ok = FALSE is its "not enough data" error.
computeRTKSolution(st, now) ==
    IF mode = "static" /\ st.basePosition # Nil
    THEN [ok |-> TRUE,
          solution |-> [Status |-> StatusFix,
                        Latitude |-> st.basePosition.Latitude,
                        Longitude |-> st.basePosition.Longitude,
                        Altitude |-> st.basePosition.Altitude,
                        Time |-> now,
                        NumSats |-> Cardinality(DOMAIN st.ephemeris),
                        HDOP |-> Float(8, 10)]]
    ELSE IF Len(st.observations) > 0
    THEN LET numSats == st.observations[Len(st.observations)].Satellites
         IN  [ok |-> TRUE,
              solution |-> [Status |-> computeFixStatus(numSats),
                            Latitude |-> Float(515074, 10000),
                            Longitude |-> Float(-1278, 10000),
                            Altitude |-> Float(45, 1),
                            Time |-> now,
                            NumSats |-> numSats,
                            HDOP |-> computeHDOP(numSats)]]
    ELSE [ok |-> FALSE, solution |-> Nil]

\* SendSolution making room by discarding the oldest queued solution.
SendSolutionDropOldest(chan, solution) ==
    IF Len(chan) < 10 THEN Append(chan, solution) ELSE Append(Tail(chan), solution)

\* select { case p.solutionChan <- solution: default: } on a channel of 10.
SendSolution(chan, solution) ==
    IF Len(chan) < 10 THEN Append(chan, solution) ELSE chan

\* The buffer ProcessRTCM leaves: it is cleared whenever it was not empty.
BufferAfter(buf) == <<>>

\* Processor.ProcessRTCM(data) at time now.
ProcessRTCM(data, now) ==
    \E buf \in {rtcmData \o data} :
      IF Len(buf) > 0
      THEN /\ rtcmData' = BufferAfter(buf)
           /\ \E messages \in {parseRTCMData(buf)} :
                IF Len(messages) > 0
                THEN \E st \in {processRTCMMessages(ProcState, messages, now)} :
                       /\ rtcmMessages' = st.rtcmMessages
                       /\ observations' = st.observations
                       /\ ephemeris' = st.ephemeris
                       /\ basePosition' = st.basePosition
                       /\ \E res \in {computeRTKSolution(st, now)} :
                            IF res.ok
                            THEN /\ solutions' = Append(solutions, res.solution)
                                 /\ lastSolution' = res.solution
                                 /\ solutionChan' = SendSolution(solutionChan, res.solution)
                            ELSE UNCHANGED <<solutions, lastSolution, solutionChan>>
                ELSE UNCHANGED <<rtcmMessages, observations, ephemeris, basePosition,
                                 solutions, lastSolution, solutionChan>>
      ELSE UNCHANGED <<rtcmData, rtcmMessages, observations, ephemeris, basePosition,
                       solutions, lastSolution, solutionChan>>

\* Processor.GetLastSolution(): nil, or a copy of the last solution.
GetLastSolution == lastSolution

\* The frames a caster sends: observations of 3 and of 5 satellites, the
\* ephemeris of satellites 1 and 2, station coordinates 1005 and 1006, and
\* an MSM7 message the Processor only stores.
ProcFrames ==
    { SerializeMessage(1004, 3), SerializeMessage(1004, 5),
      SerializeMessage(1019, 1), SerializeMessage(1019, 2),
      SerializeMessage(1005, 1), SerializeMessage(1006, 2),
      SerializeMessage(1077, 0) }

procStream == Flatten(procItems)

\* NewProcessorWithMode(m)
NewProcessorWithMode(m) ==
    /\ mode = (IF m \in {"static", "kinematic"} THEN m ELSE "kinematic")
    /\ rtcmData = <<>>
    /\ solutions = <<>>
    /\ lastSolution = Nil
    /\ solutionChan = <<>>
    /\ basePosition = Nil
    /\ rtcmMessages = <<>>
    /\ observations = <<>>
    /\ ephemeris = <<>>

ProcInit ==
    /\ \E m \in {"static", "kinematic", "rover"} : NewProcessorWithMode(m)
    /\ clock = 0
    /\ procItems \in UNION { [1..n -> ProcFrames] : n \in 1..MaxFrames }
    /\ procFed = 0
    /\ received = <<>>

\* The state of a Processor nothing is done with.
ProcIdle ==
    /\ NewProcessorWithMode("kinematic")
    /\ clock = 0
    /\ procItems = <<>>
    /\ procFed = 0
    /\ received = <<>>

ParserIdle ==
    /\ pKind = "rtcm"
    /\ pItems = <<>>
    /\ pFed = 0
    /\ pCalls = 0
    /\ rtcmBuffer = <<>>
    /\ rtcmEmitted = <<>>
    /\ ubxBuffer = <<>>
    /\ ubxEmitted = <<>>

\* One read of the NTRIP stream (cli.go: stream.Read, then ProcessRTCM): the
\* next bytes of the stream, a multiple of ChunkUnit or all that is left.
ChunkSizes(left) == { n \in 1..left : n % ChunkUnit = 0 \/ n = left }

FeedProcessor ==
    /\ \E n \in ChunkSizes(Len(procStream) - procFed) :
          /\ ProcessRTCM(SubSeq(procStream, procFed + 1, procFed + n), clock + 1)
          /\ procFed' = procFed + n
    /\ clock' = clock + 1
    /\ UNCHANGED <<mode, procItems, received>>
    /\ UNCHANGED <<parserVars, avgVars, extVars>>

\* A caster whose every read delivers one of a few runs of whole frames:
\* observations of 0 to 7 satellites, the ephemeris of satellites 1 and 2
\* (of satellite 1 in two issues), station coordinates, an MSM7 message.
Batches ==
    { <<SerializeMessage(1004, 5), SerializeMessage(1004, 2),
        SerializeMessage(1004, 3), SerializeMessage(1004, 4)>>,
      <<SerializeMessage(1004, 6), SerializeMessage(1004, 0),
        SerializeMessage(1019, 1), SerializeMessage(1004, 3)>>,
      <<SerializeMessage(1019, 5), SerializeMessage(1019, 2),
        SerializeMessage(1077, 0), SerializeMessage(1004, 1)>>,
      <<SerializeMessage(1005, 1), SerializeMessage(1004, 2)>>,
      <<SerializeMessage(1004, 7), SerializeMessage(1004, 5)>> }

\* One read and the ProcessRTCM call on it; procItems records the frames
\* delivered so far.
FeedBatch ==
    /\ clock < MaxBatches
    /\ \E b \in Batches :
          /\ ProcessRTCM(Flatten(b), clock + 1)
          /\ procItems' = procItems \o b
          /\ procFed' = procFed + Len(Flatten(b))
    /\ clock' = clock + 1
    /\ UNCHANGED <<mode, received>>
    /\ UNCHANGED <<parserVars, avgVars, extVars>>

\* A caster sending whole frames, one per read, for MaxCalls reads.
FloodFrames == { SerializeMessage(1004, 5), SerializeMessage(1019, 1) }

FloodProcessor ==
    /\ clock < MaxCalls
    /\ \E f \in FloodFrames : ProcessRTCM(f, clock + 1)
    /\ clock' = clock + 1
    /\ UNCHANGED <<mode, procItems, procFed, received>>
    /\ UNCHANGED <<parserVars, avgVars, extVars>>

\* The consumer of GetSolutionChannel() takes the oldest queued solution.
ReceiveSolution ==
    /\ solutionChan # <<>>
    /\ received' = Append(received, Head(solutionChan))
    /\ solutionChan' = Tail(solutionChan)
    /\ UNCHANGED <<mode, rtcmData, solutions, lastSolution, basePosition, rtcmMessages,
                   observations, ephemeris, clock, procItems, procFed>>
    /\ UNCHANGED <<parserVars, avgVars, extVars>>

\* -------------------------------------------------------------------------
\* internal/position (averager.go): the PositionAverager
\* -------------------------------------------------------------------------
\* (The wall-clock fields startTime and Position.Timestamp, which nothing
\* reads back, are left out.)
MapIds == 1..3

EmptyMap == [q \in {} |-> 0]

\* m[k]++ on a Go map: a missing key counts as 0.
MapIncrement(m, k) == MapPut(m, k, (IF k \in DOMAIN m THEN m[k] ELSE 0) + 1)

\* The maps something still refers to; the others are garbage.
LiveMaps(dist, kept) == {dist, kept} \ {0}

Collect(heap, live) == [i \in MapIds |-> IF i \in live THEN heap[i] ELSE EmptyMap]

\* make(map[int]int): a reference not in use.
NewMap == CHOOSE i \in MapIds \ LiveMaps(fixQualityDist, callerDist) :
             \A j \in MapIds \ LiveMaps(fixQualityDist, callerDist) : i <= j

\* float64 division and square root, exact.
Div(num, den) == [num |-> num, den |-> den]

Sqrt(q) == [sqrt |-> q]

RECURSIVE Sum(_)
Sum(xs) == IF xs = <<>> THEN 0 ELSE Head(xs) + Sum(Tail(xs))

Lat(s) == [i \in 1..Len(s) |-> s[i].Latitude]
Lon(s) == [i \in 1..Len(s) |-> s[i].Longitude]
Alt(s) == [i \in 1..Len(s) |-> s[i].Altitude]

Squares(xs) == [i \in 1..Len(xs) |-> xs[i] * xs[i]]

\* minTime taken from the first sample to arrive.
MinTimeFirstArrival(s, i, m) == IF Len(s) = 0 THEN m ELSE s[1].Timestamp

\* The first pass's minTime and maxTime: the zero time when there is no
\* sample, the first sample's time at i == 0.
RECURSIVE MinTime(_, _, _)
MinTime(s, i, m) ==
    IF i > Len(s) THEN m
    ELSE MinTime(s, i + 1, IF i = 1 \/ s[i].Timestamp < m THEN s[i].Timestamp ELSE m)

RECURSIVE MaxTime(_, _, _)
MaxTime(s, i, m) ==
    IF i > Len(s) THEN m
    ELSE MaxTime(s, i + 1, IF i = 1 \/ s[i].Timestamp > m THEN s[i].Timestamp ELSE m)

\* sqrt(sum((x - avg)^2) / n) with avg = sum(x) / n, exact:
\* sum((x - avg)^2) / n = (n * sum(x^2) - sum(x)^2) / n^2.
StdDev(xs) ==
    Sqrt(Div(Len(xs) * Sum(Squares(xs)) - Sum(xs) * Sum(xs), Len(xs) * Len(xs)))

AcceptedAbove(sample) == sample.FixQuality > minFixQuality

\* The gate of AddSample: the sample is used.
Accepted(sample) == ~(sample.FixQuality < minFixQuality)

HistogramAfterAddGated(sample) ==
    IF sample.FixQuality < minFixQuality THEN mapHeap[fixQualityDist]
    ELSE MapIncrement(mapHeap[fixQualityDist], sample.FixQuality)

\* The histogram AddSample leaves.
HistogramAfterAdd(sample) == MapIncrement(mapHeap[fixQualityDist], sample.FixQuality)

\* PositionAverager.AddSample(sample)
AddSample(sample) ==
    /\ mapHeap' = [mapHeap EXCEPT ![fixQualityDist] = HistogramAfterAdd(sample)]
    /\ IF Accepted(sample)
       THEN /\ samples' = Append(samples, sample)
            /\ ret' = [accepted |-> TRUE]
       ELSE /\ samples' = samples
            /\ ret' = [accepted |-> FALSE]
    /\ UNCHANGED <<minFixQuality, fixQualityDist>>

\* PositionAverager.GetSampleCount()
GetSampleCount ==
    /\ ret' = [count |-> Len(samples)]
    /\ UNCHANGED <<minFixQuality, samples, fixQualityDist, mapHeap>>

\* The two passes of GetAveragedPosition and the objects it builds.
Averaged(s) ==
    [pos |-> [Latitude    |-> Div(Sum(Lat(s)), Len(s)),
              Longitude   |-> Div(Sum(Lon(s)), Len(s)),
              Altitude    |-> Div(Sum(Alt(s)), Len(s)),
              FixQuality  |-> minFixQuality,
              Satellites  |-> 0,
              HDOP        |-> 0,
              Description |-> <<"Averaged position from %d samples", Len(s)>>],
     stats |-> [SampleCount            |-> Len(s),
                Duration               |-> MaxTime(s, 1, 0) - MinTime(s, 1, 0),
                LatitudeStdDev         |-> StdDev(Lat(s)),
                LongitudeStdDev        |-> StdDev(Lon(s)),
                AltitudeStdDev         |-> StdDev(Alt(s)),
                StartTime              |-> MinTime(s, 1, 0),
                EndTime                |-> MaxTime(s, 1, 0),
                FixQualityDistribution |-> fixQualityDist],
     err |-> ""]

AveragedPositionUnguarded == Averaged(samples)

\* What GetAveragedPosition returns.
AveragedPosition ==
    IF Len(samples) = 0
    THEN [pos |-> Nil, stats |-> Nil, err |-> "no samples collected"]
    ELSE Averaged(samples)

\* PositionAverager.GetAveragedPosition()
GetAveragedPosition ==
    /\ ret' = AveragedPosition
    /\ UNCHANGED <<minFixQuality, samples, fixQualityDist, mapHeap>>

\* Reset leaving the histogram as it is.
ResetKeepsHistogram ==
    /\ samples' = <<>>
    /\ ret' = Nil
    /\ UNCHANGED <<minFixQuality, fixQualityDist, mapHeap>>

\* PositionAverager.Reset()
Reset ==
    /\ samples' = <<>>
    /\ fixQualityDist' = NewMap
    /\ mapHeap' = Collect([mapHeap EXCEPT ![NewMap] = EmptyMap],
                          LiveMaps(NewMap, callerDist))
    /\ ret' = Nil
    /\ UNCHANGED minFixQuality

DistributionAlias == [dist |-> fixQualityDist, heap |-> mapHeap]

\* The map GetFixQualityDistribution returns, and the heap with it.
DistributionCopy ==
    [dist |-> NewMap, heap |-> [mapHeap EXCEPT ![NewMap] = mapHeap[fixQualityDist]]]

\* PositionAverager.GetFixQualityDistribution()
GetFixQualityDistribution ==
    /\ ret' = [dist |-> DistributionCopy.dist]
    /\ mapHeap' = Collect(DistributionCopy.heap,
                          LiveMaps(fixQualityDist, DistributionCopy.dist))
    /\ UNCHANGED <<minFixQuality, samples, fixQualityDist>>

\* NewPositionAverager(minFixQuality)
NewPositionAverager(min) ==
    /\ minFixQuality = min
    /\ samples = <<>>
    /\ fixQualityDist = 1
    /\ mapHeap = [i \in MapIds |-> EmptyMap]

\* The solutions offered to the averager: one below the threshold, one at
\* it, one above it; the last is stamped earlier than the others.
Samples ==
    { [Latitude |-> 20, Longitude |-> -20, Altitude |-> 40, FixQuality |-> 3, Timestamp |-> 3],
      [Latitude |-> 10, Longitude |-> -10, Altitude |-> 45, FixQuality |-> 4, Timestamp |-> 2],
      [Latitude |-> 30, Longitude |-> -30, Altitude |-> 45, FixQuality |-> 5, Timestamp |-> 1] }

NoCall == [op |-> "NewPositionAverager", arg |-> Nil]

AvgCallerInit ==
    /\ lastCall = NoCall
    /\ ret = Nil
    /\ callerDist = 0
    /\ avgLog = <<>>

AvgInit ==
    /\ \E min \in {4, 5} : NewPositionAverager(min)
    /\ AvgCallerInit

AvgIdle ==
    /\ NewPositionAverager(4)
    /\ AvgCallerInit

\* The caller's steps (cli.go getAveragedPosition, the package's tests): it
\* looks at what a call returned before it makes the next one, and keeps
\* the map GetFixQualityDistribution gave it.
CallAddSample ==
    /\ Len(avgLog) < MaxAdds
    /\ \E s \in Samples :
          /\ AddSample(s)
          /\ avgLog' = Append(avgLog, s)
          /\ lastCall' = [op |-> "AddSample", arg |-> s]
    /\ UNCHANGED callerDist
    /\ UNCHANGED <<parserVars, procVars, extVars>>

CallGetSampleCount ==
    /\ GetSampleCount
    /\ lastCall' = [op |-> "GetSampleCount", arg |-> Nil]
    /\ UNCHANGED <<callerDist, avgLog>>
    /\ UNCHANGED <<parserVars, procVars, extVars>>

CallGetAveragedPosition ==
    /\ GetAveragedPosition
    /\ lastCall' = [op |-> "GetAveragedPosition", arg |-> Nil]
    /\ UNCHANGED <<callerDist, avgLog>>
    /\ UNCHANGED <<parserVars, procVars, extVars>>

CallReset ==
    /\ Reset
    /\ avgLog' = <<>>
    /\ lastCall' = [op |-> "Reset", arg |-> Nil]
    /\ UNCHANGED callerDist
    /\ UNCHANGED <<parserVars, procVars, extVars>>

CallGetFixQualityDistribution ==
    /\ GetFixQualityDistribution
    /\ lastCall' = [op |-> "GetFixQualityDistribution", arg |-> Nil]
    /\ callerDist' = DistributionCopy.dist
    /\ UNCHANGED avgLog
    /\ UNCHANGED <<parserVars, procVars, extVars>>

\* The caller writes an entry of the map GetFixQualityDistribution gave it
\* (averager_test.go: dist[3] = 100).
WriteDistribution ==
    /\ callerDist # 0
    /\ mapHeap' = [mapHeap EXCEPT ![callerDist] = MapPut(@, 3, 100)]
    /\ lastCall' = [op |-> "WriteDistribution", arg |-> Nil]
    /\ ret' = Nil
    /\ UNCHANGED <<minFixQuality, samples, fixQualityDist, callerDist, avgLog>>
    /\ UNCHANGED <<parserVars, procVars, extVars>>

\* -------------------------------------------------------------------------
\* internal/parser (nmea.go), internal/device (MonitorNMEA), cmd/ntrip-avg:
\* NMEA text.  A string is a sequence of one-character strings.
\* -------------------------------------------------------------------------
\* strings.Index(s, sub): the 0-based index of the first sub in s, or -1.
Index(s, sub) ==
    LET at == { i \in 1..(Len(s) - Len(sub) + 1) : SubSeq(s, i, i + Len(sub) - 1) = sub }
    IN  IF at = {} THEN -1 ELSE (CHOOSE i \in at : \A j \in at : i <= j) - 1

\* strings.LastIndex(s, sub) for a sub of one character.
LastIndex(s, sub) ==
    LET at == { i \in 1..Len(s) : <<s[i]>> = sub }
    IN  IF at = {} THEN -1 ELSE (CHOOSE i \in at : \A j \in at : i >= j) - 1

\* s[from:] and s[from:to] of Go, 0-based.
From(s, from) == SubSeq(s, from + 1, Len(s))

Slice(s, from, to) == SubSeq(s, from + 1, to)

\* strings.Split(s, sep) for a sep of one character.
RECURSIVE Split(_, _)
Split(s, sep) ==
    LET i == Index(s, sep)
    IN  IF i = -1 THEN <<s>>
        ELSE <<Slice(s, 0, i)>> \o Split(From(s, i + Len(sep)), sep)

\* strings.TrimPrefix(s, prefix)
TrimPrefix(s, prefix) ==
    IF Len(s) >= Len(prefix) /\ SubSeq(s, 1, Len(prefix)) = prefix
    THEN From(s, Len(prefix)) ELSE s

\* strings.HasSuffix(s, suffix)
HasSuffix(s, suffix) ==
    Len(s) >= Len(suffix) /\ From(s, Len(s) - Len(suffix)) = suffix

\* Parse leaving the checksum in the last field.
ParseKeepsChecksum(sent) ==
    LET result == [Type |-> <<>>, Fields |-> <<>>, Valid |-> FALSE, Checksum |-> <<>>]
        fields == Split(sent, <<",">>)
    IN  IF Len(sent) < 6 THEN result
        ELSE IF sent[1] # "$" THEN result
        ELSE IF Len(fields) < 2 THEN result
        ELSE [result EXCEPT !.Type = TrimPrefix(fields[1], <<"$">>),
                            !.Fields = Tail(fields),
                            !.Valid = TRUE]

\* NMEAParser.Parse(sentence)
Parse(sent) ==
    LET result      == [Type |-> <<>>, Fields |-> <<>>, Valid |-> FALSE, Checksum |-> <<>>]
        checksumPos == LastIndex(sent, <<"*">>)
        hasChecksum == checksumPos # -1 /\ checksumPos < Len(sent) - 2
        data        == IF hasChecksum THEN Slice(sent, 0, checksumPos) ELSE sent
        result1     == IF hasChecksum
                       THEN [result EXCEPT !.Checksum = From(sent, checksumPos + 1)]
                       ELSE result
        fields      == Split(data, <<",">>)
    IN  IF Len(sent) < 6 THEN result
        ELSE IF sent[1] # "$" THEN result
        ELSE IF Len(fields) < 2 THEN result1
        ELSE [result1 EXCEPT !.Type = TrimPrefix(fields[1], <<"$">>),
                             !.Fields = Tail(fields),
                             !.Valid = TRUE]

\* NextSentence emptying the buffer when the sentence is not complete yet.
NextSentenceDropsPartial(buf) ==
    LET startIdx == Index(buf, <<"$">>)
        endRel   == IF startIdx = -1 THEN -1 ELSE Index(From(buf, startIdx), <<"\r", "\n">>)
        endIdx   == endRel + startIdx
    IN  IF startIdx = -1 \/ endRel = -1
        THEN [exit |-> TRUE, sentence |-> <<>>, buffer |-> <<>>]
        ELSE [exit |-> FALSE,
              sentence |-> Slice(buf, startIdx, endIdx),
              buffer |-> IF endIdx + 2 <= Len(buf) THEN From(buf, endIdx + 2) ELSE <<>>]

\* One pass of the sentence loop of MonitorNMEA and of ntrip-avg: the next
\* sentence of dataBuffer, from the first "$" to the "\r\n" that follows
\* it, and the buffer after it; exit when there is no "$" or no "\r\n" yet.
NextSentence(buf) ==
    LET startIdx == Index(buf, <<"$">>)
        endRel   == IF startIdx = -1 THEN -1 ELSE Index(From(buf, startIdx), <<"\r", "\n">>)
        endIdx   == endRel + startIdx
    IN  IF startIdx = -1 \/ endRel = -1
        THEN [exit |-> TRUE, sentence |-> <<>>, buffer |-> buf]
        ELSE [exit |-> FALSE,
              sentence |-> Slice(buf, startIdx, endIdx),
              buffer |-> IF endIdx + 2 <= Len(buf) THEN From(buf, endIdx + 2) ELSE <<>>]

\* strconv.Atoi and strconv.ParseFloat of a text of decimal digits (with one
\* "." for ParseFloat); any other text is an error and gives 0.
DigitValue(c) ==
    CASE c = "0" -> 0 [] c = "1" -> 1 [] c = "2" -> 2 [] c = "3" -> 3 [] c = "4" -> 4
      [] c = "5" -> 5 [] c = "6" -> 6 [] c = "7" -> 7 [] c = "8" -> 8 [] c = "9" -> 9
      [] OTHER -> -1

RECURSIVE DigitsValue(_, _)
DigitsValue(text, acc) ==
    IF text = <<>> THEN acc
    ELSE IF acc = -1 \/ DigitValue(Head(text)) = -1 THEN -1
    ELSE DigitsValue(Tail(text), acc * 10 + DigitValue(Head(text)))

Atoi(text) ==
    IF text = <<>> \/ DigitsValue(text, 0) = -1 THEN 0 ELSE DigitsValue(text, 0)

RECURSIVE Pow10(_)
Pow10(n) == IF n = 0 THEN 1 ELSE 10 * Pow10(n - 1)

ParseFloat(text) ==
    LET dot   == Index(text, <<".">>)
        whole == IF dot = -1 THEN text ELSE Slice(text, 0, dot)
        frac  == IF dot = -1 THEN <<>> ELSE From(text, dot + 1)
        n     == DigitsValue(whole \o frac, 0)
    IN  IF whole \o frac = <<>> \/ n = -1 THEN Div(0, 1)
        ELSE Div(n, Pow10(Len(frac)))

\* convertNMEACoordinate(coord, isNegative): DDMM.MMMM to decimal degrees.
convertNMEACoordinate(coord, isNegative) ==
    LET degrees == (coord.num \div coord.den) \div 100
        minutes == Div(coord.num - degrees * 100 * coord.den, coord.den)
        decimal == Div(degrees * 60 * minutes.den + minutes.num, 60 * minutes.den)
    IN  IF isNegative THEN Div(-decimal.num, decimal.den) ELSE decimal

\* The time of day of an NMEA time text, in seconds (the date is today's,
\* fractions of a second are dropped); 0 stands for the zero time.
GGATime(timeStr) ==
    IF Len(timeStr) >= 6
    THEN Atoi(Slice(timeStr, 0, 2)) * 3600 + Atoi(Slice(timeStr, 2, 4)) * 60
         + (ParseFloat(From(timeStr, 4)).num \div ParseFloat(From(timeStr, 4)).den)
    ELSE 0

\* position.ExtractFromGGA(sentence): [pos, err].
ExtractFromGGA(s) ==
    IF ~HasSuffix(s.Type, <<"G", "G", "A">>) \/ Len(s.Fields) < 14
    THEN [pos |-> Nil, err |-> "not a valid GGA sentence"]
    ELSE [pos |-> [Latitude   |-> convertNMEACoordinate(ParseFloat(s.Fields[2]),
                                                        s.Fields[3] = <<"S">>),
                   Longitude  |-> convertNMEACoordinate(ParseFloat(s.Fields[4]),
                                                        s.Fields[5] = <<"W">>),
                   Altitude   |-> ParseFloat(s.Fields[9]),
                   FixQuality |-> Atoi(s.Fields[6]),
                   Satellites |-> Atoi(s.Fields[7]),
                   HDOP       |-> ParseFloat(s.Fields[8]),
                   Timestamp  |-> GGATime(s.Fields[1])],
          err |-> ""]

\* The sentence loop of MonitorNMEA on dataBuffer: every sentence is parsed,
\* a valid one is given to config.Handler.HandleNMEA.
RECURSIVE MonitorLoop(_, _, _)
MonitorLoop(buf, hd, hl) ==
    CHOOSE r \in { IF it.exit THEN [buffer |-> it.buffer, handed |-> hd, handled |-> hl]
                   ELSE MonitorLoop(it.buffer, Append(hd, it.sentence),
                                    IF Parse(it.sentence).Valid
                                    THEN Append(hl, Parse(it.sentence)) ELSE hl)
                   : it \in {NextSentence(buf)} } : TRUE

\* ProcessGGA taking every valid GGA sentence for a sample.
ProcessGGAUnchecked(st, parsed) ==
    IF parsed.Valid /\ HasSuffix(parsed.Type, <<"G", "G", "A">>)
    THEN [samples  |-> Append(st.samples, [FixQuality |-> 0, Timestamp |-> 0]),
          hist     |-> MapIncrement(st.hist, 0),
          count    |-> st.count + 1,
          returned |-> st.count + 1 >= SampleCount]
    ELSE st

\* What the sentence loop of ntrip-avg does with one parsed sentence: a
\* valid GGA sentence of 14 fields or more gives a sample, which is added to
\* the averager; the loop returns once sampleCount samples were accepted.
\* st: [samples, hist, count, returned].
ProcessGGA(st, parsed) ==
    IF parsed.Valid /\ HasSuffix(parsed.Type, <<"G", "G", "A">>) /\ Len(parsed.Fields) >= 14
    THEN LET fixQuality == IF parsed.Fields[6] # <<>> THEN Atoi(parsed.Fields[6]) ELSE 0
             res        == ExtractFromGGA(parsed)
             sample     == [Latitude |-> res.pos.Latitude, Longitude |-> res.pos.Longitude,
                            Altitude |-> res.pos.Altitude, FixQuality |-> fixQuality,
                            Timestamp |-> res.pos.Timestamp]
         IN  IF res.err # "" THEN st
             ELSE IF ~(fixQuality < minFixQuality)
             THEN [samples  |-> Append(st.samples, sample),
                   hist     |-> MapIncrement(st.hist, fixQuality),
                   count    |-> st.count + 1,
                   returned |-> st.count + 1 >= SampleCount]
             ELSE [st EXCEPT !.hist = MapIncrement(st.hist, fixQuality)]
    ELSE st

\* The sentence loop of ntrip-avg on dataBuffer.
RECURSIVE NtripAvgLoop(_, _, _)
NtripAvgLoop(buf, hd, st) ==
    CHOOSE r \in { IF it.exit THEN [buffer |-> it.buffer, handed |-> hd, st |-> st]
                   ELSE LET st1 == ProcessGGA(st, Parse(it.sentence))
                        IN  IF st1.returned
                            THEN [buffer |-> buf, handed |-> Append(hd, it.sentence),
                                  st |-> st1]
                            ELSE NtripAvgLoop(it.buffer, Append(hd, it.sentence), st1)
                   : it \in {NextSentence(buf)} } : TRUE

\* The texts a receiver sends, in the order it sends them: text that is no
\* sentence, a GGA sentence cut short, GGA sentences of quality 4, 1 (with a
\* checksum) and 5, and a sentence of another type; the receiver may leave
\* any of them out.
GGAFix == <<"$","G","G","A",",",",",",",",",",",",","4",",",",",",",",",",",",",",",",">>

GGASingle == <<"$","G","G","A",",",",",",",",",",",",","1",",",",",",",",",",",",",",",",",
               "*","4","7">>

GGAFloat == <<"$","G","G","A",",","1","2","3","5","1","9",",",",",",",",",",","5",",",",",
              ",",",",",",",",",",",">>

GGAShort == <<"$","G","G","A",",","1",",","2",",","N">>

RMC == <<"$","R","M","C",",","A">>

CRLF == <<"\r", "\n">>

NMEATexts ==
    << <<"x", "\r", "\n">>, GGAShort \o CRLF, GGAFix \o CRLF, GGASingle \o CRLF,
       RMC \o CRLF, GGAFloat \o CRLF >>

\* The sub-sequences of at most n texts of a sequence of texts.
RECURSIVE Selections(_, _)
Selections(texts, n) ==
    IF texts = <<>> \/ n = 0 THEN {<<>>}
    ELSE Selections(Tail(texts), n)
         \cup { <<Head(texts)>> \o rest : rest \in Selections(Tail(texts), n - 1) }

\* The text received may end with the start of a sentence.
NMEATails == { <<>>, <<"$", "G", "G">> }

nmeaStream == Flatten(nmeaItems)

NMEAInit ==
    /\ nmeaLoop \in {"MonitorNMEA", "ntrip-avg"}
    /\ \E items \in Selections(NMEATexts, MaxSentences) \ {<<>>} : \E tail \in NMEATails :
          nmeaItems = Append(items, tail)
    /\ nmeaFed = 0
    /\ dataBuffer = <<>>
    /\ handed = <<>>
    /\ handled = <<>>
    /\ nmeaReturned = FALSE

NMEAIdle ==
    /\ nmeaLoop = "none"
    /\ nmeaItems = <<>>
    /\ nmeaFed = 0
    /\ dataBuffer = <<>>
    /\ handed = <<>>
    /\ handled = <<>>
    /\ nmeaReturned = FALSE

\* One Read of the goroutine of MonitorNMEA and the sentence loop on the
\* text it returned.
MonitorRead ==
    /\ nmeaLoop = "MonitorNMEA"
    /\ \E n \in 1..(Len(nmeaStream) - nmeaFed) :
         \E r \in {MonitorLoop(dataBuffer \o SubSeq(nmeaStream, nmeaFed + 1, nmeaFed + n),
                               handed, handled)} :
            /\ nmeaFed' = nmeaFed + n
            /\ dataBuffer' = r.buffer
            /\ handed' = r.handed
            /\ handled' = r.handled
    /\ UNCHANGED <<nmeaLoop, nmeaItems, nmeaReturned>>
    /\ UNCHANGED <<parserVars, procVars, avgVars, nmeaOthers>>

\* One Read of the main loop of ntrip-avg and the sentence loop on the text
\* it returned.
NtripAvgRead ==
    /\ nmeaLoop = "ntrip-avg"
    /\ ~nmeaReturned
    /\ \E n \in 1..(Len(nmeaStream) - nmeaFed) :
         \E r \in {NtripAvgLoop(dataBuffer \o SubSeq(nmeaStream, nmeaFed + 1, nmeaFed + n),
                                handed,
                                [samples |-> samples, hist |-> mapHeap[fixQualityDist],
                                 count |-> currentCount, returned |-> FALSE])} :
            /\ nmeaFed' = nmeaFed + n
            /\ dataBuffer' = r.buffer
            /\ handed' = r.handed
            /\ samples' = r.st.samples
            /\ mapHeap' = [mapHeap EXCEPT ![fixQualityDist] = r.st.hist]
            /\ currentCount' = r.st.count
            /\ nmeaReturned' = r.st.returned
    /\ UNCHANGED <<nmeaLoop, nmeaItems, handled>>
    /\ UNCHANGED <<minFixQuality, fixQualityDist, lastCall, ret, callerDist, avgLog>>
    /\ UNCHANGED <<session, goroutine, streamOpen, rtkVars, clientVars, stVars, devVars, simVars, appVars>>
    /\ UNCHANGED <<parserVars, procVars>>

\* The sentence of the parser's test and of the specification.
ReferenceGGA ==
    <<"$","G","N","G","G","A",",","1","2","3","5","1","9",",","4","8","0",
      "7",".","0","3","8",",","N",",","0","1","1","3","1",".","0","0","0",
      ",","E",",","1",",","0","8",",","0",".","9",",","5","4","5",".","4",
      ",","M",",","4","6",".","9",",","M",",",",","*","4","7">>

\* The sentences Parse is tried on: every text of at most MaxText
\* characters among "$", "G", "," and "*", the reference sentence and the
\* test's text that is no sentence.
ParseInputs ==
    UNION { [1..n -> {"$", "G", ",", "*"}] : n \in 0..MaxText }
    \cup { ReferenceGGA, <<"I", "N", "V", "A", "L", "I", "D">> }

ParseInit ==
    /\ nmeaLoop = "Parse"
    /\ \E text \in ParseInputs : nmeaItems = <<text>>
    /\ nmeaFed = 0
    /\ dataBuffer = <<>>
    /\ handed = <<>>
    /\ handled = <<>>
    /\ nmeaReturned = FALSE

\* A caller passes the sentence to Parse and keeps what it returns.
CallParse ==
    /\ nmeaLoop = "Parse"
    /\ handed = <<>>
    /\ handed' = <<nmeaItems[1]>>
    /\ handled' = <<Parse(nmeaItems[1])>>
    /\ UNCHANGED <<nmeaLoop, nmeaItems, nmeaFed, dataBuffer, nmeaReturned>>
    /\ UNCHANGED <<parserVars, procVars, avgVars, nmeaOthers>>

\* -------------------------------------------------------------------------
\* internal/ui (cli.go): an NTRIP session of getNtripPosition or
\* getAveragedPosition
\* -------------------------------------------------------------------------
\* The goroutines of a session: the function itself, the solution
\* collector, the stream reader and the one waiting for Enter.
Goroutines == {"main", "collector", "reader", "enter"}

\* The frames the caster sends in a session: observations of 5 satellites
\* (a fixed solution), of 4 (a float solution) and of 2 (a single solution).
SessFrames == { SerializeMessage(1004, 5), SerializeMessage(1004, 4), SerializeMessage(1004, 2) }

\* RTKSolution.ToPosition and the PositionSample made from it.
ToSample(solution) ==
    [Latitude |-> 10, Longitude |-> -10, Altitude |-> 45,
     FixQuality |-> solution.Status, Timestamp |-> solution.Time]

SessInit ==
    /\ session \in {"getNtripPosition", "getAveragedPosition"}
    /\ goroutine = [main |-> "select", collector |-> "select",
                    reader |-> "select", enter |-> "ReadString"]
    /\ streamOpen = TRUE
    /\ currentCount = 0

\* No session.
SessIdle ==
    /\ session = "none"
    /\ goroutine = [g \in Goroutines |-> "none"]
    /\ streamOpen = FALSE
    /\ currentCount = 0

\* The user presses Enter: c.reader.ReadString returns and the goroutine
\* reaches its send on the unbuffered stopChan.
PressEnter ==
    /\ goroutine.enter = "ReadString"
    /\ goroutine' = [goroutine EXCEPT !.enter = "send stopChan"]
    /\ UNCHANGED <<session, streamOpen, currentCount>>
    /\ UNCHANGED <<parserVars, procVars, avgVars, sessOthers>>

\* The function's final select receives the value sent on stopChan.
\* getAveragedPosition reads the averager and returns, and its deferred
\* stream.Close() runs.  getNtripPosition calls StopMonitoring of the device
\* (a TOPGNSSDevice: cmd/ntrip/main.go), whose send on the device's
\* unbuffered stopChan waits for a monitoring goroutine to receive it; the
\* session has started none.
MainReceivesStop ==
    /\ goroutine.enter = "send stopChan"
    /\ goroutine.main = "select"
    /\ IF session = "getAveragedPosition"
       THEN /\ goroutine' = [goroutine EXCEPT !.enter = "exited", !.main = "returned"]
            /\ streamOpen' = FALSE
            /\ IF Len(samples) > 0 THEN GetAveragedPosition ELSE GetSampleCount
       ELSE /\ goroutine' = [goroutine EXCEPT !.enter = "exited",
                                              !.main = "StopMonitoring"]
            /\ UNCHANGED <<streamOpen, minFixQuality, samples, fixQualityDist, mapHeap, ret>>
    /\ UNCHANGED <<session, currentCount, lastCall, callerDist, avgLog>>
    /\ UNCHANGED <<parserVars, procVars, sessOthers>>

\* The collector's select receives the value sent on stopChan and returns.
CollectorReceivesStop ==
    /\ goroutine.enter = "send stopChan"
    /\ goroutine.collector = "select"
    /\ goroutine' = [goroutine EXCEPT !.enter = "exited", !.collector = "exited"]
    /\ UNCHANGED <<session, streamOpen, currentCount>>
    /\ UNCHANGED <<parserVars, procVars, avgVars, sessOthers>>

\* The reader's select: it receives the value sent on stopChan if the send
\* is waiting, and returns; otherwise it takes the default case and calls
\* stream.Read.
ReaderSelect ==
    /\ goroutine.reader = "select"
    /\ IF goroutine.enter = "send stopChan"
       THEN goroutine' = [goroutine EXCEPT !.enter = "exited", !.reader = "exited"]
       ELSE goroutine' = [goroutine EXCEPT !.reader = "Read"]
    /\ UNCHANGED <<session, streamOpen, currentCount>>
    /\ UNCHANGED <<parserVars, procVars, avgVars, sessOthers>>

\* stream.Read returns a frame and the reader passes it to ProcessRTCM.
ReaderRead ==
    /\ goroutine.reader = "Read"
    /\ streamOpen
    /\ clock < MaxReads
    /\ \E f \in SessFrames : ProcessRTCM(f, clock + 1)
    /\ clock' = clock + 1
    /\ goroutine' = [goroutine EXCEPT !.reader = "select"]
    /\ UNCHANGED <<mode, procItems, procFed, received>>
    /\ UNCHANGED <<session, streamOpen, currentCount>>
    /\ UNCHANGED <<parserVars, avgVars, sessOthers>>

\* stream.Read on the closed stream returns an error and the reader returns.
ReaderReadError ==
    /\ goroutine.reader = "Read"
    /\ ~streamOpen
    /\ goroutine' = [goroutine EXCEPT !.reader = "exited"]
    /\ UNCHANGED <<session, streamOpen, currentCount>>
    /\ UNCHANGED <<parserVars, procVars, avgVars, sessOthers>>

\* The collector's select receives a solution.  getNtripPosition: a
\* solution of status StatusFix or more is to be sent on positionChan.
\* getAveragedPosition: the solution is added to the averager and, once
\* sampleCount samples were accepted, the averaged position is to be sent.
CollectorReceivesSolution ==
    /\ goroutine.collector = "select"
    /\ solutionChan # <<>>
    /\ solutionChan' = Tail(solutionChan)
    /\ \E solution \in {Head(solutionChan)} :
         IF session = "getNtripPosition"
         THEN /\ goroutine' = [goroutine EXCEPT !.collector =
                                  IF solution.Status >= StatusFix
                                  THEN "send positionChan" ELSE "select"]
              /\ UNCHANGED <<currentCount, minFixQuality, samples, fixQualityDist,
                             mapHeap, ret>>
         ELSE \E sample \in {ToSample(solution)} :
              /\ mapHeap' = [mapHeap EXCEPT ![fixQualityDist] = HistogramAfterAdd(sample)]
              /\ samples' = IF Accepted(sample) THEN Append(samples, sample) ELSE samples
              /\ UNCHANGED <<minFixQuality, fixQualityDist>>
              /\ currentCount' = IF Accepted(sample) THEN currentCount + 1 ELSE currentCount
              /\ IF Accepted(sample) /\ currentCount' >= SampleCount
                 THEN /\ ret' = AveragedPosition'
                      /\ goroutine' = [goroutine EXCEPT !.collector =
                                          IF ret'.err = "" THEN "send positionChan"
                                          ELSE "select"]
                 ELSE /\ ret' = [accepted |-> Accepted(sample)]
                      /\ UNCHANGED goroutine
    /\ UNCHANGED <<mode, rtcmData, solutions, lastSolution, basePosition, rtcmMessages,
                   observations, ephemeris, clock, procItems, procFed, received>>
    /\ UNCHANGED <<session, streamOpen, lastCall, callerDist, avgLog>>
    /\ UNCHANGED <<parserVars, sessOthers>>

\* The function's final select receives the position the collector sends
\* on the unbuffered positionChan; the function returns and its deferred
\* stream.Close() runs; the collector goes on with its loop.
MainReceivesPosition ==
    /\ goroutine.collector = "send positionChan"
    /\ goroutine.main = "select"
    /\ goroutine' = [goroutine EXCEPT !.collector = "select", !.main = "returned"]
    /\ streamOpen' = FALSE
    /\ UNCHANGED <<session, currentCount>>
    /\ UNCHANGED <<parserVars, procVars, avgVars, sessOthers>>

\* -------------------------------------------------------------------------
\* pkg/ntrip (rtk_processor.go): the RTKProcessor
\* -------------------------------------------------------------------------
RtkInit ==
    /\ rtkRunning = FALSE
    /\ rtkSolutions = 0
    /\ rtkFixCount = 0
    /\ rtkSvr = "initialised"
    /\ rtkMonitors = 0
    /\ rtkRet = Nil
    /\ rtkCalls = 0

\* RTKProcessor.Start() restarting a processor that is running.
StartRestarts ==
    \E started \in BOOLEAN :
        IF ~started
        THEN /\ rtkRet' = [op |-> "Start", err |-> "failed to start RTK server"]
             /\ UNCHANGED <<rtkRunning, rtkSolutions, rtkFixCount, rtkSvr, rtkMonitors>>
        ELSE /\ rtkSvr' = "started"
             /\ rtkRunning' = TRUE
             /\ rtkSolutions' = 0
             /\ rtkFixCount' = 0
             /\ rtkMonitors' = rtkMonitors + 1
             /\ rtkRet' = [op |-> "Start", err |-> ""]

\* RTKProcessor.Start(); started is what RtkSvrStart of the library answers.
Start ==
    IF rtkRunning
    THEN /\ rtkRet' = [op |-> "Start", err |-> "already running"]
         /\ UNCHANGED <<rtkRunning, rtkSolutions, rtkFixCount, rtkSvr, rtkMonitors>>
    ELSE \E started \in BOOLEAN :
            IF ~started
            THEN /\ rtkRet' = [op |-> "Start", err |-> "failed to start RTK server"]
                 /\ UNCHANGED <<rtkRunning, rtkSolutions, rtkFixCount, rtkSvr, rtkMonitors>>
            ELSE /\ rtkSvr' = "started"
                 /\ rtkRunning' = TRUE
                 /\ rtkSolutions' = 0
                 /\ rtkFixCount' = 0
                 /\ rtkMonitors' = rtkMonitors + 1
                 /\ rtkRet' = [op |-> "Start", err |-> ""]

\* RTKProcessor.Stop()
Stop ==
    /\ rtkRet' = [op |-> "Stop", err |-> ""]
    /\ IF ~rtkRunning
       THEN UNCHANGED <<rtkRunning, rtkSolutions, rtkFixCount, rtkSvr, rtkMonitors>>
       ELSE /\ rtkSvr' = "stopped"
            /\ rtkRunning' = FALSE
            /\ UNCHANGED <<rtkSolutions, rtkFixCount, rtkMonitors>>

\* RTKProcessor.GetStats()
GetStats ==
    /\ rtkRet' = [op |-> "GetStats", err |-> "",
                  stats |-> [RoverObs |-> rtkSolutions * 10, BaseObs |-> rtkSolutions * 5,
                             Solutions |-> rtkSolutions,
                             FixRatio |-> IF rtkSolutions > 0
                                          THEN Div(rtkFixCount, rtkSolutions) ELSE Div(0, 1)]]
    /\ UNCHANGED <<rtkRunning, rtkSolutions, rtkFixCount, rtkSvr, rtkMonitors>>

\* The calls of a user of the processor.
CallStart ==
    /\ rtkCalls < MaxRtkCalls
    /\ rtkCalls' = rtkCalls + 1
    /\ Start
    /\ UNCHANGED <<parserVars, procVars, avgVars, rtkOthers>>

CallStop ==
    /\ rtkCalls < MaxRtkCalls
    /\ rtkCalls' = rtkCalls + 1
    /\ Stop
    /\ UNCHANGED <<parserVars, procVars, avgVars, rtkOthers>>

CallGetStats ==
    /\ rtkCalls < MaxRtkCalls
    /\ rtkCalls' = rtkCalls + 1
    /\ GetStats
    /\ UNCHANGED <<parserVars, procVars, avgVars, rtkOthers>>

\* A tick of the ticker of a monitorSolutions goroutine: the goroutine
\* returns if the processor is not running, and counts a solution (a fixed
\* one or not, by the time of day) if it is.
MonitorTick ==
    /\ rtkMonitors > 0
    /\ IF ~rtkRunning
       THEN /\ rtkMonitors' = rtkMonitors - 1
            /\ UNCHANGED <<rtkSolutions, rtkFixCount>>
       ELSE /\ rtkSolutions < MaxTicks
            /\ rtkSolutions' = rtkSolutions + 1
            /\ rtkFixCount' \in {rtkFixCount, rtkFixCount + 1}
            /\ UNCHANGED rtkMonitors
    /\ UNCHANGED <<rtkRunning, rtkSvr, rtkRet, rtkCalls>>
    /\ UNCHANGED <<parserVars, procVars, avgVars, rtkOthers>>

\* -------------------------------------------------------------------------
\* pkg/ntrip (client.go): the Client
\* -------------------------------------------------------------------------
\* NewClient
ClientInit ==
    /\ connected = FALSE
    /\ ntripStream = "zero"
    /\ clientRet = Nil
    /\ clientCalls = 0

\* Client.Connect() taking the client for connected whatever OpenStream
\* answered.
ConnectUnchecked ==
    IF connected
    THEN /\ clientRet' = [op |-> "Connect", err |-> "already connected"]
         /\ UNCHANGED <<connected, ntripStream>>
    ELSE \E result \in {0, 1} : \E state \in {0, 1} :
            /\ ntripStream' = IF result > 0 THEN "open" ELSE "initialised"
            /\ connected' = TRUE
            /\ clientRet' = [op |-> "Connect",
                             err |-> IF result <= 0 \/ state <= 0
                                     THEN "failed to connect to NTRIP server" ELSE ""]

\* Client.Connect(); result and state are what OpenStream of the library
\* returns and the State it leaves in the stream.
Connect ==
    IF connected
    THEN /\ clientRet' = [op |-> "Connect", err |-> "already connected"]
         /\ UNCHANGED <<connected, ntripStream>>
    ELSE \E result \in {0, 1} : \E state \in {0, 1} :
            /\ ntripStream' = IF result > 0 THEN "open" ELSE "initialised"
            /\ IF result <= 0 \/ state <= 0
               THEN /\ clientRet' = [op |-> "Connect",
                                     err |-> "failed to connect to NTRIP server"]
                    /\ UNCHANGED connected
               ELSE /\ connected' = TRUE
                    /\ clientRet' = [op |-> "Connect", err |-> ""]

\* Client.Disconnect()
Disconnect ==
    /\ clientRet' = [op |-> "Disconnect", err |-> ""]
    /\ IF ~connected
       THEN UNCHANGED <<connected, ntripStream>>
       ELSE /\ ntripStream' = "closed"
            /\ connected' = FALSE

\* Client.Read(p); n is what StreamRead of the library returns.
Read ==
    /\ IF ~connected
       THEN clientRet' = [op |-> "Read", n |-> 0, err |-> "not connected"]
       ELSE \E n \in 0..MaxRead :
               clientRet' = [op |-> "Read", n |-> IF n <= 0 THEN 0 ELSE n,
                             err |-> IF n <= 0 THEN "EOF" ELSE ""]
    /\ UNCHANGED <<connected, ntripStream>>

\* Client.IsConnected()
IsConnected ==
    /\ clientRet' = [op |-> "IsConnected", is |-> connected]
    /\ UNCHANGED <<connected, ntripStream>>

\* The calls of a user of the client.
CallConnect ==
    /\ clientCalls < MaxClientCalls
    /\ clientCalls' = clientCalls + 1
    /\ Connect
    /\ UNCHANGED <<parserVars, procVars, avgVars, clientOthers>>

CallDisconnect ==
    /\ clientCalls < MaxClientCalls
    /\ clientCalls' = clientCalls + 1
    /\ Disconnect
    /\ UNCHANGED <<parserVars, procVars, avgVars, clientOthers>>

CallRead ==
    /\ clientCalls < MaxClientCalls
    /\ clientCalls' = clientCalls + 1
    /\ Read
    /\ UNCHANGED <<parserVars, procVars, avgVars, clientOthers>>

CallIsConnected ==
    /\ clientCalls < MaxClientCalls
    /\ clientCalls' = clientCalls + 1
    /\ IsConnected
    /\ UNCHANGED <<parserVars, procVars, avgVars, clientOthers>>

\* -------------------------------------------------------------------------
\* internal/ntrip (client.go): the sourcetable
\* -------------------------------------------------------------------------
\* strings.Join(elems, sep)
RECURSIVE Join(_, _)
Join(elems, sep) ==
    IF elems = <<>> THEN <<>>
    ELSE IF Len(elems) = 1 THEN Head(elems)
    ELSE Head(elems) \o sep \o Join(Tail(elems), sep)

\* strings.HasPrefix(s, prefix)
HasPrefix(s, prefix) ==
    Len(s) >= Len(prefix) /\ SubSeq(s, 1, Len(prefix)) = prefix

STRPrefix == <<"S", "T", "R", ";">>

\* The mountpoints of the lines, one after the other.
RECURSIVE MountsOf(_)
MountsOf(lines) ==
    IF lines = <<>> THEN <<>>
    ELSE LET line == Head(lines)
             fields == Split(line, <<";">>)
         IN  IF HasPrefix(line, STRPrefix) /\ Len(fields) >= MinSTRFields
             THEN << [Name |-> fields[2], Identifier |-> fields[3],
                      Format |-> fields[4], FormatDetails |-> fields[5]] >>
                  \o MountsOf(Tail(lines))
             ELSE MountsOf(Tail(lines))

\* parseSourcetable(data)
parseSourcetable(data) ==
    [Mounts |-> MountsOf(Split(data, CRLF))]

\* Lines of a caster's answer.
STRLine(name) ==
    Join(<< <<"S", "T", "R">>, name, <<"i">>, <<"f">>, <<"d">> >>
         \o [i \in 1..(MinSTRFields - 5) |-> <<>>], <<";">>)

EndLine == <<"E","N","D","S","O","U","R","C","E","T","A","B","L","E">>

TableLines ==
    { STRLine(<<"A">>), STRLine(<<"B">>),
      <<"S","T","R",";","C",";","i">>,
      <<"C","A","S",";","x">>,
      <<"S","O","U","R","C","E","T","A","B","L","E"," ","2","0","0">>,
      EndLine }

RECURSIVE Answers(_)
Answers(n) ==
    IF n = 0 THEN { <<>> }
    ELSE Answers(n - 1)
         \union { a \o line \o CRLF : a \in { b \in Answers(n - 1) : Len(b) > 0 \/ n = 1 },
                                      line \in TableLines }

\* A caster's answer has been read in full.
SourcetableInit ==
    /\ stData \in Answers(MaxLines)
    /\ stTable = Nil

SourcetableIdle ==
    /\ stData = <<>>
    /\ stTable = Nil

\* GetSourcetable: the body is parsed.
GetSourcetable ==
    /\ stTable = Nil
    /\ stTable' = parseSourcetable(stData)
    /\ UNCHANGED <<stData, parserVars, procVars, avgVars, stOthers>>

\* -------------------------------------------------------------------------
\* TOPGNSSDevice: MonitorNMEA and StopMonitoring
\* -------------------------------------------------------------------------
Monitors == 1..MaxMonitors

\* NewTOPGNSSDevice and Connect: no goroutine is monitoring yet.
DeviceInit ==
    /\ monitor = [g \in Monitors |-> "none"]
    /\ stopMonitoring = "idle"
    /\ monHandled = 0
    /\ monHandledAtStop = 0

Started == { g \in Monitors : monitor[g] # "none" }

\* MonitorNMEA(config): starts one more goroutine, which begins at its select.
MonitorNMEA ==
    /\ stopMonitoring = "idle"
    /\ \E g \in Monitors :
          /\ monitor[g] = "none"
          /\ \A h \in Monitors : h < g => monitor[h] # "none"
          /\ monitor' = [monitor EXCEPT ![g] = "select"]
    /\ UNCHANGED <<stopMonitoring, monHandled, monHandledAtStop>>
    /\ UNCHANGED <<parserVars, procVars, avgVars, devOthers>>

\* StopMonitoring(): the caller reaches its send on the unbuffered stopChan.
StopMonitoring ==
    /\ stopMonitoring = "idle"
    /\ stopMonitoring' = "sending"
    /\ UNCHANGED <<monitor, monHandled, monHandledAtStop>>
    /\ UNCHANGED <<parserVars, procVars, avgVars, devOthers>>

\* The select of a monitoring goroutine receives from stopChan: the goroutine
\* returns and the send of StopMonitoring completes.
MonitorReceivesStop(g) ==
    /\ monitor[g] = "select"
    /\ stopMonitoring = "sending"
    /\ monitor' = [monitor EXCEPT ![g] = "exited"]
    /\ stopMonitoring' = "returned"
    /\ monHandledAtStop' = monHandled
    /\ UNCHANGED monHandled
    /\ UNCHANGED <<parserVars, procVars, avgVars, devOthers>>

\* The select of a monitoring goroutine finds nobody sending on stopChan and
\* takes its default branch.
MonitorDefault(g) ==
    /\ monitor[g] = "select"
    /\ stopMonitoring # "sending"
    /\ monitor' = [monitor EXCEPT ![g] = "reading"]
    /\ UNCHANGED <<stopMonitoring, monHandled, monHandledAtStop>>
    /\ UNCHANGED <<parserVars, procVars, avgVars, devOthers>>

\* The default branch: a read of the port, the handler invoked for the valid
\* sentences it completed (if any), a sleep, and back to the select.
MonitorReads(g) ==
    /\ monitor[g] = "reading"
    /\ monitor' = [monitor EXCEPT ![g] = "select"]
    /\ \/ UNCHANGED monHandled
       \/ /\ monHandled < MaxHandled
          /\ monHandled' = monHandled + 1
    /\ UNCHANGED <<stopMonitoring, monHandledAtStop>>
    /\ UNCHANGED <<parserVars, procVars, avgVars, devOthers>>

\* -------------------------------------------------------------------------
\* The simulator GNSSReceiver (gnss_receiver.go)
\* -------------------------------------------------------------------------
Generators == 1..MaxSimCalls

\* NewGNSSReceiver
SimInit ==
    /\ simRunning = FALSE
    /\ simStopClosed = FALSE
    /\ simQueued = 0
    /\ simQueueClosed = FALSE
    /\ generator = [g \in Generators |-> "none"]
    /\ simPanic = "none"
    /\ simRet = Nil
    /\ simCalls = 0

\* close(r.stopChan)
CloseStopChan ==
    IF simStopClosed
    THEN /\ simPanic' = "close of closed channel"
         /\ UNCHANGED simStopClosed
    ELSE /\ simStopClosed' = TRUE
         /\ UNCHANGED simPanic

\* GNSSReceiver.Stop()
ReceiverStopBody ==
    IF ~simRunning
    THEN UNCHANGED <<simRunning, simStopClosed, simPanic>>
    ELSE /\ simRunning' = FALSE
         /\ CloseStopChan

\* GNSSReceiver.Start(): go r.generateData()
ReceiverStart ==
    /\ simPanic = "none"
    /\ simCalls < MaxSimCalls
    /\ simCalls' = simCalls + 1
    /\ IF simRunning
       THEN /\ simRet' = [op |-> "Start", err |-> "receiver already running"]
            /\ UNCHANGED <<simRunning, generator>>
       ELSE /\ simRet' = [op |-> "Start", err |-> ""]
            /\ simRunning' = TRUE
            /\ \E g \in Generators :
                  /\ generator[g] = "none"
                  /\ \A h \in Generators : h < g => generator[h] # "none"
                  /\ generator' = [generator EXCEPT ![g] = "select"]
    /\ UNCHANGED <<simStopClosed, simQueued, simQueueClosed, simPanic>>
    /\ UNCHANGED <<parserVars, procVars, avgVars, simOthers>>

ReceiverStop ==
    /\ simPanic = "none"
    /\ simCalls < MaxSimCalls
    /\ simCalls' = simCalls + 1
    /\ ReceiverStopBody
    /\ simRet' = [op |-> "Stop", err |-> ""]
    /\ UNCHANGED <<simQueued, simQueueClosed, generator>>
    /\ UNCHANGED <<parserVars, procVars, avgVars, simOthers>>

\* GNSSReceiver.Close()
ReceiverClose ==
    /\ simPanic = "none"
    /\ simCalls < MaxSimCalls
    /\ simCalls' = simCalls + 1
    /\ ReceiverStopBody
    /\ simRet' = [op |-> "Close", err |-> ""]
    /\ UNCHANGED <<simQueued, simQueueClosed, generator>>
    /\ UNCHANGED <<parserVars, procVars, avgVars, simOthers>>

\* GNSSReceiver.Read(p): a message of the queue, io.EOF from the closed and
\* drained queue, a timeout after a second with nothing queued.
ReceiverRead ==
    /\ simPanic = "none"
    /\ IF simQueued > 0
       THEN /\ simQueued' = simQueued - 1
            /\ simRet' = [op |-> "Read", err |-> ""]
       ELSE /\ simRet' = [op |-> "Read",
                          err |-> IF simQueueClosed THEN "EOF"
                                  ELSE "timeout waiting for data"]
            /\ UNCHANGED simQueued
    /\ UNCHANGED <<simRunning, simStopClosed, simQueueClosed, generator, simPanic, simCalls>>
    /\ UNCHANGED <<parserVars, procVars, avgVars, simOthers>>

\* generateData, case <-r.stopChan: close(r.dataQueue) and return.
GeneratorReceivesStop(g) ==
    /\ simPanic = "none"
    /\ generator[g] = "select"
    /\ simStopClosed
    /\ IF simQueueClosed
       THEN /\ simPanic' = "close of closed channel"
            /\ UNCHANGED <<simQueueClosed, generator>>
       ELSE /\ simQueueClosed' = TRUE
            /\ generator' = [generator EXCEPT ![g] = "exited"]
            /\ UNCHANGED simPanic
    /\ UNCHANGED <<simRunning, simStopClosed, simQueued, simRet, simCalls>>
    /\ UNCHANGED <<parserVars, procVars, avgVars, simOthers>>

\* generateData, case t := <-ticker.C: a message is generated and the
\* goroutine reaches its send.
GeneratorTick(g) ==
    /\ simPanic = "none"
    /\ generator[g] = "select"
    /\ generator' = [generator EXCEPT ![g] = "send"]
    /\ UNCHANGED <<simRunning, simStopClosed, simQueued, simQueueClosed, simPanic,
                   simRet, simCalls>>
    /\ UNCHANGED <<parserVars, procVars, avgVars, simOthers>>

\* generateData, r.dataQueue <- data: completes when the queue has room,
\* panics when the queue is closed, and blocks otherwise.
GeneratorSend(g) ==
    /\ simPanic = "none"
    /\ generator[g] = "send"
    /\ IF simQueueClosed
       THEN /\ simPanic' = "send on closed channel"
            /\ UNCHANGED <<simQueued, generator>>
       ELSE /\ simQueued < QueueCap
            /\ simQueued' = simQueued + 1
            /\ generator' = [generator EXCEPT ![g] = "select"]
            /\ UNCHANGED simPanic
    /\ UNCHANGED <<simRunning, simStopClosed, simQueueClosed, simRet, simCalls>>
    /\ UNCHANGED <<parserVars, procVars, avgVars, simOthers>>

\* The steps of one generateData goroutine.
GeneratorStep(g) ==
    GeneratorReceivesStop(g) \/ GeneratorTick(g) \/ GeneratorSend(g)

\* -------------------------------------------------------------------------
\* cmd/rtk2go-test: the RTKApp
\* -------------------------------------------------------------------------
AppLoops == {"monitorConnection", "monitorSolutions"}

\* strings.Contains(s, sub)
Contains(s, sub) == Index(s, sub) # -1

\* GetFixQualityName(quality)
GetFixQualityName(quality) ==
    CASE quality = 0 -> "NONE"
      [] quality = 1 -> "SINGLE"
      [] quality = 2 -> "DGPS"
      [] quality = 4 -> "FIX"
      [] quality = 5 -> "FLOAT"
      [] OTHER -> "NONE"

\* NMEAParserImpl.ParseGGA(sentence): [data, err].  Its Parse is the one of
\* internal/parser, with an error for every sentence that Parse calls
\* invalid; a number that does not parse leaves the zero value.
ParseGGA(sent) ==
    LET parsed == Parse(sent)
        f      == parsed.Fields
    IN  IF ~parsed.Valid THEN [data |-> Nil, err |-> "invalid NMEA sentence"]
        ELSE IF ~HasSuffix(parsed.Type, <<"G", "G", "A">>)
        THEN [data |-> Nil, err |-> "not a GGA sentence"]
        ELSE IF Len(f) < 14
        THEN [data |-> Nil, err |-> "not enough fields in GGA sentence"]
        ELSE [data |-> [Latitude  |-> IF f[2] # <<>> /\ DigitsValue(f[2], 0) # -1
                                      THEN convertNMEACoordinate(ParseFloat(f[2]), f[3] = <<"S">>)
                                      ELSE Div(0, 1),
                        Longitude |-> IF f[4] # <<>> /\ DigitsValue(f[4], 0) # -1
                                      THEN convertNMEACoordinate(ParseFloat(f[4]), f[5] = <<"W">>)
                                      ELSE Div(0, 1),
                        Quality   |-> Atoi(f[6]),
                        NumSats   |-> Atoi(f[7]),
                        HDOP      |-> ParseFloat(f[8]),
                        Altitude  |-> ParseFloat(f[9]),
                        DGPSAge   |-> ParseFloat(f[13])],
              err |-> ""]

\* The status fields that processNMEAData sets from a GGA sentence.
StatusFromGGA(status, ggaData) ==
    [status EXCEPT !.Status    = GetFixQualityName(ggaData.Quality),
                   !.Latitude  = ggaData.Latitude,
                   !.Longitude = ggaData.Longitude,
                   !.Altitude  = ggaData.Altitude,
                   !.NSats     = ggaData.NumSats,
                   !.HDOP      = ggaData.HDOP,
                   !.Age       = ggaData.DGPSAge]

\* The loop of processNMEAData over the lines: the first line that starts
\* with "$", contains "GGA" and parses sets the status and ends the loop.
RECURSIVE FirstGGA(_, _)
FirstGGA(lines, status) ==
    IF lines = <<>> THEN [status |-> status, found |-> FALSE]
    ELSE IF /\ HasPrefix(Head(lines), <<"$">>)
            /\ Contains(Head(lines), <<"G", "G", "A">>)
            /\ ParseGGA(Head(lines)).err = ""
         THEN [status |-> StatusFromGGA(status, ParseGGA(Head(lines)).data), found |-> TRUE]
         ELSE FirstGGA(Tail(lines), status)

\* processNMEAData(data, verbose, logger) on app.nmeaBuffer and app.status.
processNMEAData(buf, status, data) ==
    LET appended == buf \o data
        buffer   == IF Len(appended) > NMEABufferLimit
                    THEN From(appended, Len(appended) - NMEABufferLimit)
                    ELSE appended
        r        == FirstGGA(Split(buffer, CRLF), status)
    IN  [buffer |-> buffer, status |-> r.status, found |-> r.found]

\* What rtkProcessor.GetSolution() may answer.
NoSolution ==
    [Status |-> "NONE", Latitude |-> Div(0, 1), Longitude |-> Div(0, 1),
     Altitude |-> Div(0, 1), NSats |-> 0, HDOP |-> Div(0, 1), Age |-> Div(0, 1)]

AppSolutions ==
    { NoSolution,
      [NoSolution EXCEPT !.Status = "SINGLE", !.Latitude = Div(51, 1), !.NSats = 8] }

\* What one ReadRaw of the device may deliver.
AppChunks ==
    { GGAFix \o CRLF, GGASingle \o CRLF, GGAFloat \o CRLF, RMC \o CRLF,
      <<"$", "G", "G", "A", ",">> }

RECURSIVE AppStreams(_)
AppStreams(n) ==
    IF n = 0 THEN { <<>> }
    ELSE AppStreams(n - 1)
         \union { Append(s, c) : s \in { t \in AppStreams(n - 1) : Len(t) = n - 1 },
                                 c \in AppChunks }

\* NewRTKApp, with the devices set and the device's output still to come.
AppInit ==
    /\ appPhase = "new"
    /\ appStopChan = "open"
    /\ appLoop = [l \in AppLoops |-> "none"]
    /\ appConnected = TRUE
    /\ appReconnects = 0
    /\ nmeaBuffer = <<>>
    /\ appStatus = NoSolution
    /\ appStream \in AppStreams(MaxAppReads)
    /\ appReceived = <<>>
    /\ appFound = FALSE

AppIdle ==
    /\ appPhase = "new"
    /\ appStopChan = "open"
    /\ appLoop = [l \in AppLoops |-> "none"]
    /\ appConnected = TRUE
    /\ appReconnects = 0
    /\ nmeaBuffer = <<>>
    /\ appStatus = NoSolution
    /\ appStream = <<>>
    /\ appReceived = <<>>
    /\ appFound = FALSE

\* RTKApp.Start(logger), reconnection enabled: both loops start.
AppStart ==
    /\ appPhase = "new"
    /\ appPhase' = "started"
    /\ appLoop' = [l \in AppLoops |-> "select"]
    /\ UNCHANGED <<appStopChan, appConnected, appReconnects, nmeaBuffer, appStatus,
                   appStream, appReceived, appFound>>
    /\ UNCHANGED <<parserVars, procVars, avgVars, appOthers>>

\* main's signal goroutine: close(app.stopChan).
AppSignal ==
    /\ appStopChan = "open"
    /\ appStopChan' = "closed"
    /\ UNCHANGED <<appPhase, appLoop, appConnected, appReconnects, nmeaBuffer, appStatus,
                   appStream, appReceived, appFound>>
    /\ UNCHANGED <<parserVars, procVars, avgVars, appOthers>>

\* RTKApp.Stop(logger): stops the RTK processor and returns.
AppStop ==
    /\ appPhase = "started"
    /\ appPhase' = "stopped"
    /\ UNCHANGED <<appStopChan, appLoop, appConnected, appReconnects, nmeaBuffer,
                   appStatus, appStream, appReceived, appFound>>
    /\ UNCHANGED <<parserVars, procVars, avgVars, appOthers>>

\* The select of a loop receives from the closed app.stopChan.
AppLoopReceivesStop(l) ==
    /\ appLoop[l] = "select"
    /\ appStopChan = "closed"
    /\ appLoop' = [appLoop EXCEPT ![l] = "exited"]
    /\ UNCHANGED <<appPhase, appStopChan, appConnected, appReconnects, nmeaBuffer,
                   appStatus, appStream, appReceived, appFound>>
    /\ UNCHANGED <<parserVars, procVars, avgVars, appOthers>>

\* The caster drops the connection.
ConnectionLost ==
    /\ appConnected
    /\ appReconnects < MaxReconnects
    /\ appConnected' = FALSE
    /\ UNCHANGED <<appPhase, appStopChan, appLoop, appReconnects, nmeaBuffer, appStatus,
                   appStream, appReceived, appFound>>
    /\ UNCHANGED <<parserVars, procVars, avgVars, appOthers>>

\* monitorConnection, case <-ticker.C: a client that is not connected is
\* reconnected, with or without success.
ConnectionTick ==
    /\ appLoop["monitorConnection"] = "select"
    /\ ~appConnected
    /\ appReconnects < MaxReconnects
    /\ appReconnects' = appReconnects + 1
    /\ appConnected' \in BOOLEAN
    /\ UNCHANGED <<appPhase, appStopChan, appLoop, nmeaBuffer, appStatus, appStream,
                   appReceived, appFound>>
    /\ UNCHANGED <<parserVars, procVars, avgVars, appOthers>>

\* monitorSolutions, case <-ticker.C: the status becomes the processor's
\* solution, the device is read and what it gave goes to processNMEAData.
SolutionsTick ==
    /\ appLoop["monitorSolutions"] = "select"
    /\ appStream # <<>>
    /\ \E sol \in AppSolutions :
          LET r == processNMEAData(nmeaBuffer, sol, Head(appStream))
          IN  /\ nmeaBuffer' = r.buffer
              /\ appStatus' = r.status
              /\ appFound' = r.found
    /\ appReceived' = appReceived \o Head(appStream)
    /\ appStream' = Tail(appStream)
    /\ UNCHANGED <<appPhase, appStopChan, appLoop, appConnected, appReconnects>>
    /\ UNCHANGED <<parserVars, procVars, avgVars, appOthers>>

\* -------------------------------------------------------------------------
\* Specifications
\* -------------------------------------------------------------------------
ExtIdle == SessIdle /\ NMEAIdle /\ RtkInit /\ ClientInit /\ SourcetableIdle /\ DeviceInit /\ SimInit /\ AppIdle

ParserNext == FeedRTCM \/ FeedUBX

InitParser == ParserInit /\ ProcIdle /\ AvgIdle /\ ExtIdle

SpecParser == InitParser /\ [][ParserNext]_vars

\* A stream cut at up to MaxSplits places, each piece passed in one call
\* (the last piece may be withheld).
CallRTCM == pCalls <= MaxSplits /\ FeedRTCM

CallUBX == pCalls <= MaxSplits /\ FeedUBX

ParserCallsNext == CallRTCM \/ CallUBX

InitParserCalls == ParserInit /\ ProcIdle /\ AvgIdle /\ ExtIdle

SpecParserCalls == InitParserCalls /\ [][ParserCallsNext]_vars

ProcessorNext == FeedProcessor

InitProcessor == ParserIdle /\ ProcInit /\ AvgIdle /\ ExtIdle

SpecProcessor == InitProcessor /\ [][ProcessorNext]_vars

FloodInit ==
    /\ \E m \in {"static", "kinematic"} : NewProcessorWithMode(m)
    /\ clock = 0
    /\ procItems = <<>>
    /\ procFed = 0
    /\ received = <<>>

FloodNext == FloodProcessor \/ ReceiveSolution

InitFlood == ParserIdle /\ FloodInit /\ AvgIdle /\ ExtIdle

SpecFlood == InitFlood /\ [][FloodNext]_vars

BatchNext == FeedBatch

InitBatch == ParserIdle /\ FloodInit /\ AvgIdle /\ ExtIdle

SpecBatch == InitBatch /\ [][BatchNext]_vars

InitAverager == ParserIdle /\ ProcIdle /\ AvgInit /\ ExtIdle

AveragerNext ==
    \/ CallAddSample
    \/ CallGetSampleCount
    \/ CallGetAveragedPosition
    \/ CallReset
    \/ CallGetFixQualityDistribution
    \/ WriteDistribution

SpecAverager == InitAverager /\ [][AveragerNext]_vars

SessionNext ==
    \/ PressEnter
    \/ MainReceivesStop
    \/ CollectorReceivesStop
    \/ ReaderSelect
    \/ ReaderRead
    \/ ReaderReadError
    \/ CollectorReceivesSolution
    \/ MainReceivesPosition

InitSession == ParserIdle /\ ProcIdle /\ AvgIdle /\ SessInit /\ NMEAIdle /\ RtkInit /\ ClientInit /\ SourcetableIdle /\ DeviceInit /\ SimInit /\ AppIdle

SpecSession == InitSession /\ [][SessionNext]_vars

NMEANext == MonitorRead \/ NtripAvgRead

InitNMEA == ParserIdle /\ ProcIdle /\ AvgIdle /\ SessIdle /\ NMEAInit /\ RtkInit /\ ClientInit /\ SourcetableIdle /\ DeviceInit /\ SimInit /\ AppIdle

SpecNMEA == InitNMEA /\ [][NMEANext]_vars

ParseNext == CallParse

InitParse == ParserIdle /\ ProcIdle /\ AvgIdle /\ SessIdle /\ ParseInit /\ RtkInit /\ ClientInit /\ SourcetableIdle /\ DeviceInit /\ SimInit /\ AppIdle

SpecParse == InitParse /\ [][ParseNext]_vars

RtkNext == CallStart \/ CallStop \/ CallGetStats \/ MonitorTick

InitRtk == ParserIdle /\ ProcIdle /\ AvgIdle /\ SessIdle /\ NMEAIdle /\ RtkInit /\ ClientInit /\ SourcetableIdle /\ DeviceInit /\ SimInit /\ AppIdle

SpecRtk == InitRtk /\ [][RtkNext]_vars

ClientNext == CallConnect \/ CallDisconnect \/ CallRead \/ CallIsConnected

InitClient == ParserIdle /\ ProcIdle /\ AvgIdle /\ ExtIdle

SpecClient == InitClient /\ [][ClientNext]_vars

SourcetableNext == GetSourcetable

InitSourcetable ==
    /\ ParserIdle /\ ProcIdle /\ AvgIdle
    /\ SessIdle /\ NMEAIdle /\ RtkInit /\ ClientInit /\ DeviceInit /\ SimInit /\ AppIdle
    /\ SourcetableInit

SpecSourcetable == InitSourcetable /\ [][SourcetableNext]_vars

DeviceNext ==
    \/ MonitorNMEA
    \/ StopMonitoring
    \/ \E g \in Monitors : MonitorReceivesStop(g)
    \/ \E g \in Monitors : MonitorDefault(g)
    \/ \E g \in Monitors : MonitorReads(g)

InitDevice == ParserIdle /\ ProcIdle /\ AvgIdle /\ ExtIdle

SpecDevice == InitDevice /\ [][DeviceNext]_vars

SimNext ==
    \/ ReceiverStart
    \/ ReceiverStop
    \/ ReceiverClose
    \/ ReceiverRead
    \/ \E g \in Generators : GeneratorReceivesStop(g)
    \/ \E g \in Generators : GeneratorTick(g)
    \/ \E g \in Generators : GeneratorSend(g)

InitSim == ParserIdle /\ ProcIdle /\ AvgIdle /\ ExtIdle

SpecSim == InitSim /\ [][SimNext]_vars

AppNext ==
    \/ AppStart
    \/ AppSignal
    \/ AppStop
    \/ \E l \in AppLoops : AppLoopReceivesStop(l)
    \/ ConnectionLost
    \/ ConnectionTick
    \/ SolutionsTick

InitApp ==
    /\ ParserIdle /\ ProcIdle /\ AvgIdle
    /\ SessIdle /\ NMEAIdle /\ RtkInit /\ ClientInit /\ SourcetableIdle /\ DeviceInit
    /\ SimInit /\ AppInit

SpecApp == InitApp /\ [][AppNext]_vars

\* -------------------------------------------------------------------------
\* Properties of the parsers
\* -------------------------------------------------------------------------
ItemKinds == { pItems[i].kind : i \in 1..Len(pItems) }

AllFed == pFed = Len(pStream)

Emitted == IF pKind = "rtcm" THEN rtcmEmitted ELSE ubxEmitted

OneCall == IF pKind = "rtcm" THEN RTCMScan(pStream, <<>>).messages
           ELSE UBXScan(pStream, <<>>).messages

\* The messages of the valid frames of the stream, in stream order.
RECURSIVE ValidMsgs(_)
ValidMsgs(items) ==
    IF items = <<>> THEN <<>>
    ELSE IF Head(items).kind = "valid"
         THEN <<Head(items).msg>> \o ValidMsgs(Tail(items))
         ELSE ValidMsgs(Tail(items))

\* C1: a stream that is a concatenation of N valid frames yields, over all
\* the calls of one parser (RTCM or UBX), the same N messages in the same
\* order as one call on the whole stream, however the stream is split.
C1_ChunkInvariance ==
    (AllFed /\ ItemKinds = {"valid"}) =>
        /\ Emitted = OneCall
        /\ Emitted = ValidMsgs(pItems)
        /\ Len(Emitted) = Len(pItems)

\* C1 witness: two valid frames were delivered in four or more calls, so a
\* frame was split across calls, and both messages are out.
C1_Witness ==
    /\ AllFed /\ ItemKinds = {"valid"} /\ Len(pItems) = 2
    /\ pCalls >= 4 /\ Len(Emitted) = 2

\* C2 (as claimed): the RTCM parser emits a frame only if its CRC-24Q
\* matches: of a stream of valid frames and frames with one payload bit
\* flipped, exactly the valid frames are emitted.
C2_RTCMRejectsBadCRC ==
    (pKind = "rtcm" /\ AllFed /\ ItemKinds \subseteq {"valid", "corrupt"}) =>
        rtcmEmitted = ValidMsgs(pItems)

\* C3 (as claimed): the UBX parser emits a frame only if its checksum
\* matches: of a stream of valid frames and frames with one payload bit
\* flipped, exactly the valid frames are emitted.
C3_UBXRejectsBadChecksum ==
    (pKind = "ubx" /\ AllFed /\ ItemKinds \subseteq {"valid", "corrupt"}) =>
        ubxEmitted = ValidMsgs(pItems)

\* C4 (as claimed): with valid frames separated by bytes that are no frame
\* (some equal to a sync marker), every valid frame is emitted exactly once
\* and in stream order, and nothing else is.
C4_NoFrameLostOrDuplicated ==
    (AllFed /\ ItemKinds \subseteq {"valid", "junk"}) =>
        Emitted = ValidMsgs(pItems)


\* The Process call a step makes: the bytes it passes, the buffers at the
\* loop tests of the call, an iteration of it, the parser's buffer.
IsFeed == pFed' > pFed

Chunk == SubSeq(pStream, pFed + 1, pFed')

Buffer == IF pKind = "rtcm" THEN rtcmBuffer ELSE ubxBuffer

LoopHeads == IF pKind = "rtcm" THEN RTCMLoop(rtcmBuffer \o Chunk)
             ELSE UBXLoop(ubxBuffer \o Chunk)

IterationAt(h) == IF pKind = "rtcm" THEN RTCMIteration(h) ELSE UBXIteration(h)

LoopMessages(heads) == Flatten([i \in 1..Len(heads) |-> IterationAt(heads[i]).messages])

\* The head of h is a sync marker; h is shorter than the frame its header
\* declares (or than the header).
HeadIsSync(h) ==
    IF pKind = "rtcm" THEN Len(h) >= 1 /\ h[1] = 211
    ELSE Len(h) >= 2 /\ h[1] = 181 /\ h[2] = 98

FrameIncomplete(h) ==
    IF pKind = "rtcm" THEN Len(h) < 3 \/ Len(h) < (h[2] % 4) * 256 + h[3] + 6
    ELSE Len(h) < 6 \/ Len(h) < (h[5] + h[6] * 256) + 8

\* C13: when a Process call (RTCM or UBX) comes to a buffer whose head is a
\* sync marker but which is shorter than the frame declared, it emits
\* nothing for that frame and returns with exactly those bytes buffered.
C13_Step ==
    IsFeed =>
        \A heads \in {LoopHeads} : \A i \in 1..Len(heads) :
            (HeadIsSync(heads[i]) /\ FrameIncomplete(heads[i])) =>
                /\ i = Len(heads)
                /\ IterationAt(heads[i]).messages = <<>>
                /\ Buffer' = heads[i]
                /\ Emitted' = Emitted \o LoopMessages(SubSeq(heads, 1, i - 1))

C13_IncompleteFrameKept == [][C13_Step]_vars

\* The RTCM parser emitted a frame and, in its second call, holds the first
\* bytes of the next one.
C13_Witness ==
    /\ pKind = "rtcm" /\ pCalls >= 2
    /\ Len(rtcmEmitted) >= 1
    /\ Len(rtcmBuffer) >= 4
    /\ HeadIsSync(rtcmBuffer) /\ FrameIncomplete(rtcmBuffer)

\* C14 (as claimed): when Process has returned, the buffer does not begin
\* with a byte that starts no sync pattern, however few bytes it holds.
C14_NoUnrecognizedHeadLeft ==
    pCalls > 0 =>
        /\ pKind = "rtcm" => (rtcmBuffer = <<>> \/ rtcmBuffer[1] = 211)
        /\ pKind = "ubx" =>
              \/ ubxBuffer = <<>>
              \/ ubxBuffer[1] = 181 /\ (Len(ubxBuffer) >= 2 => ubxBuffer[2] = 98)

\* C15: a Process call (RTCM or UBX) on any input always returns: no
\* iteration of its loop indexes or slices beyond the buffer, every
\* iteration but the last removes at least one byte, and the call leaves
\* the buffer and the messages of its iterations.
C15_Step ==
    IsFeed =>
        \A heads \in {LoopHeads} :
            /\ \A i \in 1..Len(heads) : \A it \in {IterationAt(heads[i])} :
                  /\ it.top <= Len(heads[i])
                  /\ it.exit <=> i = Len(heads)
                  /\ ~it.exit => Len(it.buffer) < Len(heads[i])
            /\ Buffer' = heads[Len(heads)]
            /\ Emitted' = Emitted \o LoopMessages(heads)

C15_ProcessAlwaysReturns ==
    /\ [](pFed < Len(pStream) => ENABLED (FeedRTCM \/ FeedUBX))
    /\ [][C15_Step]_vars

\* A stream of a corrupt frame and a frame with no payload went through the
\* RTCM parser in two calls.
C15_Witness ==
    /\ pKind = "rtcm" /\ AllFed /\ pCalls >= 2
    /\ "corrupt" \in ItemKinds
    /\ \E i \in 1..Len(pItems) : pItems[i].kind = "valid" /\ pItems[i].msg.Length = 0

\* The first 12 bits of a payload (bits it does not have count as 0).
First12Bits(payload) ==
    (IF Len(payload) >= 1 THEN payload[1] ELSE 0) * 16
    + (IF Len(payload) >= 2 THEN payload[2] \div 16 ELSE 0)

RECURSIVE FrameBytes(_)
FrameBytes(msgs) ==
    IF msgs = <<>> THEN 0 ELSE 3 + Head(msgs).Length + 3 + FrameBytes(Tail(msgs))

\* C16 (as claimed): every RTCM message emitted has as Payload the Length
\* bytes after the header and as MessageType the first 12 bits of that
\* payload, and 3 + Length + 3 bytes of the buffer were consumed for it (of
\* a stream of valid frames, the bytes passed are those still buffered and
\* those of the frames emitted).
C16_RTCMFrameLayout ==
    pKind = "rtcm" =>
        /\ \A i \in 1..Len(rtcmEmitted) :
              /\ Len(rtcmEmitted[i].Payload) = rtcmEmitted[i].Length
              /\ rtcmEmitted[i].MessageType = First12Bits(rtcmEmitted[i].Payload)
        /\ ItemKinds = {"valid"} =>
              /\ pFed = Len(rtcmBuffer) + FrameBytes(rtcmEmitted)
              /\ \A i \in 1..Len(rtcmEmitted) :
                    rtcmEmitted[i].Payload = pItems[i].msg.Payload

\* -------------------------------------------------------------------------
\* Properties of the Processor
\* -------------------------------------------------------------------------
\* The bytes of the first n bytes of the stream that follow its last
\* complete frame.
RECURSIVE Pending(_, _)
Pending(items, n) ==
    IF items = <<>> \/ n = 0 THEN <<>>
    ELSE IF n >= Len(Head(items)) THEN Pending(Tail(items), n - Len(Head(items)))
    ELSE SubSeq(Head(items), 1, n)

\* What the messages received have made of the aggregator state (the time
\* at which a base position was adopted left out).
Applied(st) ==
    [rtcmMessages |-> st.rtcmMessages, observations |-> st.observations,
     ephemeris |-> st.ephemeris,
     base |-> IF st.basePosition = Nil THEN <<>>
              ELSE <<st.basePosition.Latitude, st.basePosition.Longitude,
                     st.basePosition.Altitude>>]

FreshState == [rtcmMessages |-> <<>>, observations |-> <<>>, ephemeris |-> <<>>,
               basePosition |-> Nil]

\* C5 (as claimed): after every ProcessRTCM call the bytes of a frame not
\* complete yet are still in the buffer, and once the whole stream has been
\* passed the aggregator state is that of one call on the whole stream.
C5_PartialFrameRetained ==
    /\ rtcmData = Pending(procItems, procFed)
    /\ procFed = Len(procStream) =>
          Applied(ProcState) =
              Applied(processRTCMMessages(FreshState, parseRTCMData(procStream), 0))

IsPrefix(s, t) == Len(s) <= Len(t) /\ s = SubSeq(t, 1, Len(s))

\* q is s with some entries left out.
RECURSIVE IsSubSeq(_, _)
IsSubSeq(q, s) ==
    IF q = <<>> THEN TRUE
    ELSE IF s = <<>> THEN FALSE
    ELSE IF Head(q) = Head(s) THEN IsSubSeq(Tail(q), Tail(s))
    ELSE IsSubSeq(q, Tail(s))

Queued == received \o solutionChan

\* C6: ProcessRTCM is never blocked by the solution channel; the channel
\* holds at most 10 solutions; a solution computed while it is full is the
\* one left out; and the consumer receives the queued solutions unchanged
\* and in the order they were computed.
C6_StateInv ==
    /\ Len(solutionChan) <= 10
    /\ clock < MaxCalls => ENABLED FloodProcessor
    /\ IsSubSeq(Queued, solutions)

C6_StepInv ==
    /\ (solutions' # solutions) =>
          solutionChan' = IF Len(solutionChan) < 10
                          THEN Append(solutionChan, solutions'[Len(solutions')])
                          ELSE solutionChan
    /\ IsPrefix(received, received')
    /\ \/ received' \o solutionChan' = Queued
       \/ /\ solutions' # solutions
          /\ received' \o solutionChan' = Append(Queued, solutions'[Len(solutions')])

C6_NeverBlocksDropNewest == [](C6_StateInv) /\ [][C6_StepInv]_vars

\* C6 witness: the channel is full, a solution computed earlier was left
\* out, and the consumer has received some.
C6_Witness ==
    /\ Len(solutionChan) = 10
    /\ received # <<>>
    /\ Len(solutions) > Len(Queued)

\* The messages delivered so far (SpecBatch: procItems are the frames
\* delivered), the observations and the ephemerides among them.
FramePayload(f) == SubSeq(f, 4, Len(f) - 3)

Delivered == [i \in 1..Len(procItems) |-> DeserializeMessage(FramePayload(procItems[i]))]

Is1004(m) == m.Number = 1004

Is1019(m) == m.Number = 1019

ObsLog == SelectSeq(Delivered, Is1004)

EphLog == SelectSeq(Delivered, Is1019)

\* C17: the observation window holds at most 10 entries and is the most
\* recent min(n, 10) of the n observation (1004) messages received, in the
\* order they arrived; messages of other types are not in it and do not
\* move it.
C17_ObservationWindow ==
    /\ Len(observations) <= 10
    /\ observations = SubSeq(ObsLog,
                             IF Len(ObsLog) > 10 THEN Len(ObsLog) - 9 ELSE 1,
                             Len(ObsLog))

\* More than 10 observations were received, with other messages among them.
C17_Witness ==
    /\ Len(ObsLog) > 10
    /\ Len(observations) = 10
    /\ Len(Delivered) > Len(ObsLog)

\* C18: the ephemeris table has an entry for exactly the satellites an
\* ephemeris (1019) was received for, and the entry is the last ephemeris
\* received for that satellite: one for another satellite, or a message of
\* another type, does not change it.
C18_EphemerisIsLatest ==
    /\ DOMAIN ephemeris = { EphLog[i].SatelliteID : i \in 1..Len(EphLog) }
    /\ \A sat \in DOMAIN ephemeris :
          \E i \in 1..Len(EphLog) :
             /\ EphLog[i].SatelliteID = sat
             /\ \A j \in (i + 1)..Len(EphLog) : EphLog[j].SatelliteID # sat
             /\ ephemeris[sat] = EphLog[i]

\* Satellite 1 sent issue 1, then issue 0, the table holds issue 0 and an
\* entry for satellite 2.
C18_Witness ==
    /\ DOMAIN ephemeris = {1, 2}
    /\ ephemeris[1].IODE = 0
    /\ \E i \in 1..Len(EphLog) : EphLog[i].SatelliteID = 1 /\ EphLog[i].IODE = 1

\* The quality tier of a satellite count.
Tier(n) ==
    CASE n >= 5 -> StatusFix
      [] n = 4  -> StatusFloat
      [] n = 3  -> StatusDGPS
      [] n = 2  -> StatusSingle
      [] OTHER  -> StatusNone

\* C19: in kinematic mode, a call made once an observation has been
\* received emits a solution, and its status is the tier of the satellite
\* count of the most recent observation message: fixed for 5 or more, float
\* for 4, DGPS for 3, single for 2, none below.
C19_KinematicStatusBySatellites ==
    mode = "kinematic" =>
        /\ \A i \in 1..Len(solutions) : solutions[i].Status = Tier(solutions[i].NumSats)
        /\ (clock > 0 /\ ObsLog # <<>>) =>
              /\ solutions # <<>>
              /\ solutions[Len(solutions)].Time = clock
              /\ solutions[Len(solutions)].NumSats = ObsLog[Len(ObsLog)].Satellites
              /\ solutions[Len(solutions)].Status = Tier(ObsLog[Len(ObsLog)].Satellites)

\* Solutions of three tiers were emitted in kinematic mode.
C19_Witness ==
    /\ mode = "kinematic"
    /\ {StatusFloat, StatusNone, StatusSingle}
          \subseteq { solutions[i].Status : i \in 1..Len(solutions) }

\* The station coordinate messages the Processor has stored.
StationMessages == { rtcmMessages[n] : n \in DOMAIN rtcmMessages \cap {1005, 1006} }

\* C20 (as claimed): in static mode, once a message 1005 or 1006 has been
\* processed, there is a base position derived from such a message, and the
\* solutions emitted since it was adopted have status fixed and its
\* coordinates.
C20_StaticBaseFromStationMessage ==
    (mode = "static" /\ StationMessages # {}) =>
        /\ basePosition # Nil
        /\ \E m \in StationMessages :
              basePosition.Latitude = ecefToLatLonAlt(m.X, m.Y, m.Z).lat
        /\ \A i \in 1..Len(solutions) :
              solutions[i].Time >= basePosition.Timestamp =>
                 /\ solutions[i].Status = StatusFix
                 /\ solutions[i].Latitude = basePosition.Latitude
                 /\ solutions[i].Longitude = basePosition.Longitude
                 /\ solutions[i].Altitude = basePosition.Altitude

\* The bytes the ProcessRTCM call of this step was given, and the messages
\* it found.
ProcChunk == SubSeq(procStream, procFed + 1, procFed')

ProcMessages == parseRTCMData(rtcmData \o ProcChunk)

\* A solution can be computed: an observation has been received, or the
\* mode is static and there is a base position.
CanSolve == observations # <<>> \/ (mode = "static" /\ basePosition # Nil)

\* C21: a ProcessRTCM call after which no solution can be computed, or one
\* that brought no message, queues nothing, appends nothing and leaves
\* GetLastSolution's result as it was (nil while no solution was ever
\* produced); a call that brought messages after which a solution can be
\* computed produces exactly one, whatever the number of messages, which is
\* the new result of GetLastSolution and is queued if the channel has room.
C21_Step ==
    clock' # clock =>
        IF ProcMessages # <<>> /\ CanSolve'
        THEN /\ Len(solutions') = Len(solutions) + 1
             /\ SubSeq(solutions', 1, Len(solutions)) = solutions
             /\ GetLastSolution' = solutions'[Len(solutions')]
             /\ GetLastSolution'.Time = clock'
             /\ solutionChan' = IF Len(solutionChan) < 10
                                THEN Append(solutionChan, GetLastSolution')
                                ELSE solutionChan
        ELSE /\ UNCHANGED <<solutions, solutionChan>>
             /\ GetLastSolution' = GetLastSolution

Histogram == mapHeap[fixQualityDist]

Count(m, q) == IF q \in DOMAIN m THEN m[q] ELSE 0

\* The samples of the log that meet the threshold.
Qualifies(s) == s.FixQuality >= minFixQuality

Qualified == SelectSeq(avgLog, Qualifies)

\* C7: every AddSample call adds exactly one to the histogram entry of the
\* sample's fix quality and leaves the other entries alone, whether the
\* sample is accepted or not; it returns true and appends the sample to the
\* samples exactly when the fix quality is at least minFixQuality, and on a
\* rejection the samples (so GetSampleCount and the mean) are unchanged.
C7_AddSampleCountsAndGates ==
    [][\A s \in Samples :
          lastCall' = [op |-> "AddSample", arg |-> s] =>
             /\ \A q \in DOMAIN Histogram \cup DOMAIN Histogram' \cup {s.FixQuality} :
                   Count(Histogram', q) =
                      Count(Histogram, q) + (IF q = s.FixQuality THEN 1 ELSE 0)
             /\ ret'.accepted = (s.FixQuality >= minFixQuality)
             /\ IF s.FixQuality >= minFixQuality
                THEN samples' = Append(samples, s)
                ELSE samples' = samples /\ Len(samples') = Len(samples)]_vars

\* A sample was rejected after another was accepted, and the histogram
\* counted it.
C7_Witness ==
    /\ lastCall.op = "AddSample"
    /\ ret.accepted = FALSE
    /\ Len(samples) >= 1
    /\ Count(Histogram, lastCall.arg.FixQuality) = 1

\* C8: the map GetFixQualityDistribution returns is a copy of the histogram
\* that shares no state with it: it is another map, a caller's write to it
\* changes nothing a later query of the averager reads, and a later
\* AddSample or Reset leaves it as it was.
C8_Copy ==
    /\ callerDist # 0 => callerDist # fixQualityDist
    /\ lastCall.op = "GetFixQualityDistribution" =>
          /\ ret.dist = callerDist
          /\ mapHeap[ret.dist] = Histogram

C8_Separate ==
    /\ lastCall'.op = "WriteDistribution" =>
          /\ Histogram' = Histogram
          /\ <<samples, minFixQuality, fixQualityDist>>' = <<samples, minFixQuality, fixQualityDist>>
    /\ (lastCall'.op \in {"AddSample", "Reset"} /\ callerDist # 0) =>
          /\ callerDist' = callerDist
          /\ mapHeap'[callerDist] = mapHeap[callerDist]

C8_DistributionIsDefensiveCopy == [](C8_Copy) /\ [][C8_Separate]_vars

\* The caller wrote 100 into the returned map, then a sample of that fix
\* quality was added: the histogram counts 1, the returned map still says 100.
C8_Witness ==
    /\ callerDist # 0
    /\ lastCall.op = "AddSample"
    /\ Count(mapHeap[callerDist], 3) = 100
    /\ Count(Histogram, 3) = 1

\* C9: when no sample offered since construction or the last Reset met the
\* threshold, GetAveragedPosition returns a nil position, nil stats and the
\* error "no samples collected".
C9_NoSamplesError ==
    (lastCall.op = "GetAveragedPosition" /\ Qualified = <<>>) =>
        ret = [pos |-> Nil, stats |-> Nil, err |-> "no samples collected"]

\* GetAveragedPosition failed although samples were offered: all of them
\* were rejected.
C9_Witness ==
    /\ lastCall.op = "GetAveragedPosition"
    /\ ret.err = "no samples collected"
    /\ avgLog # <<>>

\* C10: when GetAveragedPosition succeeds, stats.SampleCount is the number
\* of samples accepted since construction or the last Reset, which is what
\* GetSampleCount returns then, and the position is the mean of exactly
\* those samples.
C10_CountAndMeanOverAccepted ==
    (lastCall.op = "GetAveragedPosition" /\ ret.err = "") =>
        /\ ret.stats.SampleCount = Len(Qualified)
        /\ ret.stats.SampleCount = Len(samples)
        /\ ret.pos.Latitude = Div(Sum(Lat(Qualified)), Len(Qualified))
        /\ ret.pos.Longitude = Div(Sum(Lon(Qualified)), Len(Qualified))
        /\ ret.pos.Altitude = Div(Sum(Alt(Qualified)), Len(Qualified))

\* GetAveragedPosition succeeded over fewer samples than were offered.
C10_Witness ==
    /\ lastCall.op = "GetAveragedPosition"
    /\ ret.err = ""
    /\ ret.stats.SampleCount >= 1
    /\ ret.stats.SampleCount < Len(avgLog)

\* The timestamps of a sequence of samples; the earliest and latest of a set.
TimesOf(s) == { s[i].Timestamp : i \in 1..Len(s) }

Earliest(T) == CHOOSE t \in T : \A u \in T : t <= u

Latest(T) == CHOOSE t \in T : \A u \in T : t >= u

\* C11: when GetAveragedPosition succeeds, StartTime is the earliest and
\* EndTime the latest timestamp of the accepted samples, whatever the order
\* they arrived in, and Duration is their difference, so never negative.
C11_DurationIsSpanOfTimestamps ==
    (lastCall.op = "GetAveragedPosition" /\ ret.err = "") =>
        /\ ret.stats.StartTime = Earliest(TimesOf(Qualified))
        /\ ret.stats.EndTime = Latest(TimesOf(Qualified))
        /\ ret.stats.Duration = Latest(TimesOf(Qualified)) - Earliest(TimesOf(Qualified))
        /\ ret.stats.Duration >= 0

\* The statistics of two or more samples of which the first to arrive is
\* not the earliest.
C11_Witness ==
    /\ lastCall.op = "GetAveragedPosition"
    /\ ret.err = ""
    /\ Len(samples) >= 2
    /\ samples[1].Timestamp > ret.stats.StartTime
    /\ ret.stats.Duration > 0

\* C12: after Reset there are no samples and the histogram has no entry,
\* minFixQuality is what it was, and from then on the samples and the
\* histogram are those of the AddSample calls made since, as for an averager
\* constructed with that threshold.
C12_AfterReset ==
    lastCall.op = "Reset" =>
        /\ samples = <<>>
        /\ Histogram = EmptyMap

C12_AsConstructed ==
    /\ samples = Qualified
    /\ DOMAIN Histogram = { avgLog[i].FixQuality : i \in 1..Len(avgLog) }
    /\ \A q \in DOMAIN Histogram :
          Histogram[q] = Cardinality({ i \in 1..Len(avgLog) : avgLog[i].FixQuality = q })

C12_KeepsThreshold == lastCall'.op = "Reset" => minFixQuality' = minFixQuality

C12_ResetClears == [](C12_AfterReset /\ C12_AsConstructed) /\ [][C12_KeepsThreshold]_vars

\* Reset was called on an averager that had counted two samples of fix
\* quality 4 (the caller holds a copy of that histogram).
C12_Witness ==
    /\ lastCall.op = "Reset"
    /\ callerDist # 0
    /\ Count(mapHeap[callerDist], 4) = 2

\* -------------------------------------------------------------------------
\* Properties of the sentence loop
\* -------------------------------------------------------------------------
\* The texts of nmeaItems read up to their "\r\n" so far, and the part
\* read of the first one that is not.
RECURSIVE ItemsRead(_, _)
ItemsRead(items, n) ==
    IF items = <<>> \/ Len(Head(items)) > n \/ ~HasSuffix(Head(items), CRLF) THEN <<>>
    ELSE <<Head(items)>> \o ItemsRead(Tail(items), n - Len(Head(items)))

ItemPartlyRead ==
    SubSeq(nmeaStream, Len(Flatten(ItemsRead(nmeaItems, nmeaFed))) + 1, nmeaFed)

IsSentence(text) == text # <<>> /\ Head(text) = "$"

\* The complete sentences among texts, without their "\r\n".
SentencesOf(texts) ==
    LET s == SelectSeq(texts, IsSentence)
    IN  [i \in 1..Len(s) |-> SubSeq(s[i], 1, Len(s[i]) - 2)]

\* C23: whatever the reads, the sentences passed to the parser are the
\* complete sentences of the text read so far, each once and in order (up
\* to the one at which ntrip-avg returned), and the part read of a sentence
\* that is not complete yet is at the end of dataBuffer.
C23_SentencesExactlyOnce ==
    nmeaLoop # "none" =>
        IF nmeaReturned
        THEN IsPrefix(handed, SentencesOf(ItemsRead(nmeaItems, nmeaFed)))
        ELSE /\ handed = SentencesOf(ItemsRead(nmeaItems, nmeaFed))
             /\ IsSentence(ItemPartlyRead) =>
                   /\ Len(dataBuffer) >= Len(ItemPartlyRead)
                   /\ SubSeq(dataBuffer, Len(dataBuffer) - Len(ItemPartlyRead) + 1,
                             Len(dataBuffer)) = ItemPartlyRead

\* A sentence was passed on and a read ended between the "\r" and the "\n"
\* of the next.
C23_Witness ==
    /\ Len(handed) = 1
    /\ dataBuffer # <<>>
    /\ Head(dataBuffer) = "$"
    /\ dataBuffer[Len(dataBuffer)] = "\r"

\* -------------------------------------------------------------------------
\* Properties of the CLI session
\* -------------------------------------------------------------------------
\* The stop signal was issued: Enter was pressed.
StopIssued == goroutine.enter # "ReadString"

\* A goroutine that has returned.
Gone(g) == goroutine[g] \in {"exited", "returned"}

\* C22 (as claimed): once the stop signal was issued, the collector and the
\* reader observe it and exit and the function returns: when nothing in the
\* session can take a further step, no goroutine is left.
C22_StopEndsSession ==
    (StopIssued /\ ~ENABLED SessionNext) => \A g \in Goroutines : Gone(g)

\* -------------------------------------------------------------------------
\* Properties of NMEAParser.Parse
\* -------------------------------------------------------------------------
\* The sentence passed to Parse and what Parse returned.
Sentence == handed[1]

Parsed == handled[1]

ParseCalled == nmeaLoop = "Parse" /\ handed # <<>>

\* The text before and after the last "*" of a sentence.
BeforeStar(s) == IF LastIndex(s, <<"*">>) = -1 THEN s ELSE Slice(s, 0, LastIndex(s, <<"*">>))

AfterStar(s) == IF LastIndex(s, <<"*">>) = -1 THEN <<>> ELSE From(s, LastIndex(s, <<"*">>) + 1)

\* C24 (as claimed): for every sentence beginning with "$", Type is the
\* first comma-separated field without the "$", Fields are the fields after
\* it and Checksum is the text after the last "*"; a text not beginning
\* with "$" is invalid.
C24_AsClaimed ==
    ParseCalled =>
        IF Sentence # <<>> /\ Head(Sentence) = "$"
        THEN /\ Parsed.Type = Tail(Split(BeforeStar(Sentence), <<",">>)[1])
             /\ Parsed.Fields = Tail(Split(BeforeStar(Sentence), <<",">>))
             /\ Parsed.Checksum = AfterStar(Sentence)
        ELSE ~Parsed.Valid

\* A sentence Parse accepts: 6 characters or more, the first a "$", and a
\* comma in it.  Its checksum is cut off where 2 characters or more follow
\* the last "*".
Acceptable(s) == Len(s) >= 6 /\ s[1] = "$" /\ Index(s, <<",">>) # -1

ChecksumCut(s) == Len(AfterStar(s)) >= 2

\* C24 (amended): Parse returns a valid sentence exactly for an acceptable
\* one.  Then, where 2 characters or more follow the last "*", Checksum is
\* the text after it and Type and Fields are the comma-separated fields of
\* the text before it (Type without its "$"); otherwise Checksum is empty
\* and Type and Fields are the fields of the whole sentence.  The reference
\* sentence gives type GNGGA, 14 fields, checksum 47.  A text that is not
\* acceptable, one not beginning with "$" among them, gives neither type
\* nor fields.
C24_ParseFields ==
    ParseCalled =>
        /\ Parsed.Valid <=> (Acceptable(Sentence)
                               /\ (ChecksumCut(Sentence) =>
                                      Index(BeforeStar(Sentence), <<",">>) # -1))
        /\ Parsed.Valid =>
              LET body == IF ChecksumCut(Sentence) THEN BeforeStar(Sentence) ELSE Sentence
              IN  /\ Parsed.Type = Tail(Split(body, <<",">>)[1])
                  /\ Parsed.Fields = Tail(Split(body, <<",">>))
                  /\ Parsed.Checksum = (IF ChecksumCut(Sentence) THEN AfterStar(Sentence)
                                        ELSE <<>>)
        /\ ~Parsed.Valid => Parsed.Type = <<>> /\ Parsed.Fields = <<>>
        /\ Sentence = ReferenceGGA =>
              /\ Parsed.Valid
              /\ Parsed.Type = <<"G", "N", "G", "G", "A">>
              /\ Len(Parsed.Fields) = 14
              /\ Parsed.Fields[1] = <<"1", "2", "3", "5", "1", "9">>
              /\ Parsed.Checksum = <<"4", "7">>

\* The reference sentence was parsed.
C24_Witness ==
    /\ ParseCalled
    /\ Sentence = ReferenceGGA
    /\ Parsed.Valid
    /\ Len(Parsed.Fields) = 14

\* -------------------------------------------------------------------------
\* Properties of the GGA samples of ntrip-avg
\* -------------------------------------------------------------------------
IsGGA(parsed) == parsed.Valid /\ HasSuffix(parsed.Type, <<"G", "G", "A">>)

\* A sentence that gives a sample the averager accepts.
GivesSample(sent) ==
    /\ IsGGA(Parse(sent))
    /\ Len(Parse(sent).Fields) >= 14
    /\ Atoi(Parse(sent).Fields[6]) >= minFixQuality

\* C25: ExtractFromGGA returns an error and no position for a GGA sentence
\* of fewer than 14 fields; the samples ntrip-avg has added are those of the
\* GGA sentences of 14 fields or more (of sufficient quality) among the
\* sentences of the text, in order: a shorter one adds none and the
\* sentences after it are processed as if it had not been there.
C25_ShortGGASkipped ==
    nmeaLoop = "ntrip-avg" =>
        /\ \A i \in 1..Len(handed) :
              (IsGGA(Parse(handed[i])) /\ Len(Parse(handed[i]).Fields) < 14) =>
                  /\ ExtractFromGGA(Parse(handed[i])).err # ""
                  /\ ExtractFromGGA(Parse(handed[i])).pos = Nil
        /\ \A expected \in {SelectSeq(handed, GivesSample)} :
              /\ Len(samples) = Len(expected)
              /\ \A i \in 1..Len(expected) :
                    /\ samples[i].FixQuality = Atoi(Parse(expected[i]).Fields[6])
                    /\ samples[i].Timestamp = GGATime(Parse(expected[i]).Fields[1])
        /\ currentCount = Len(samples)

\* A GGA sentence cut short was followed by a full one in the same read,
\* which gave the only sample.
C25_Witness ==
    /\ nmeaLoop = "ntrip-avg"
    /\ nmeaFed = Len(GGAShort) + Len(GGAFix) + 4
    /\ handed = <<GGAShort, GGAFix>>
    /\ dataBuffer = <<>>
    /\ Len(samples) = 1

\* -------------------------------------------------------------------------
\* Properties of the RTKProcessor
\* -------------------------------------------------------------------------
\* The step is a call of op.
RtkCall(op) == rtkCalls' # rtkCalls /\ rtkRet'.op = op

\* What a call that changes nothing leaves alone.
RtkState == <<rtkRunning, rtkSolutions, rtkFixCount, rtkSvr, rtkMonitors>>

\* C26: Start on a running processor returns the "already running" error
\* and changes nothing; on one not running it either fails and leaves it not
\* running or succeeds and leaves it running.  Stop returns nil; on a
\* processor not running it changes nothing, on a running one it leaves it
\* not running.  Nothing else changes running.
C26_Step ==
    /\ RtkCall("Start") =>
          IF rtkRunning
          THEN rtkRet'.err = "already running" /\ UNCHANGED RtkState
          ELSE /\ rtkRet'.err # "already running"
               /\ rtkRunning' <=> (rtkRet'.err = "")
               /\ rtkRet'.err # "" => UNCHANGED RtkState
    /\ RtkCall("Stop") =>
          /\ rtkRet'.err = ""
          /\ ~rtkRunning'
          /\ ~rtkRunning => UNCHANGED RtkState
    /\ ~(RtkCall("Start") \/ RtkCall("Stop")) => UNCHANGED rtkRunning

C26_RunningBetweenStartAndStop == (rtkCalls = 0 => ~rtkRunning) /\ [][C26_Step]_vars

\* The processor was started, stopped and started again, and a further
\* Start was refused.
C26_Witness ==
    /\ rtkRet = [op |-> "Start", err |-> "already running"]
    /\ rtkRunning
    /\ rtkMonitors = 2

\* -------------------------------------------------------------------------
\* Properties of the Client
\* -------------------------------------------------------------------------
\* The step is a call of op.
ClientCall(op) == clientCalls' # clientCalls /\ clientRet'.op = op

\* C27: Connect on a connected client fails with "already connected" and
\* leaves it connected; on a disconnected one it leaves the client connected
\* exactly if it returns no error.  Disconnect returns nil and leaves the
\* client disconnected, with no effect on a disconnected one.  Read on a
\* disconnected client fails with "not connected"; neither Read nor
\* IsConnected changes connected, and IsConnected reports it.
C27_Step ==
    /\ ClientCall("Connect") =>
          IF connected
          THEN clientRet'.err = "already connected" /\ UNCHANGED <<connected, ntripStream>>
          ELSE /\ clientRet'.err # "already connected"
               /\ connected' <=> (clientRet'.err = "")
    /\ ClientCall("Disconnect") =>
          /\ clientRet'.err = ""
          /\ ~connected'
          /\ ~connected => UNCHANGED <<connected, ntripStream>>
    /\ ClientCall("Read") =>
          /\ ~connected <=> (clientRet'.err = "not connected")
          /\ ~connected => clientRet'.n = 0
          /\ UNCHANGED <<connected, ntripStream>>
    /\ ClientCall("IsConnected") =>
          /\ clientRet'.is = connected
          /\ UNCHANGED <<connected, ntripStream>>

C27_ConnectedBetweenConnectAndDisconnect ==
    (clientCalls = 0 => ~connected) /\ [][C27_Step]_vars

\* A Connect failed, the next succeeded, and a Connect after it was refused.
C27_Witness ==
    /\ clientCalls = 3
    /\ connected
    /\ ntripStream = "open"
    /\ clientRet = [op |-> "Connect", err |-> "already connected"]

\* -------------------------------------------------------------------------
\* Properties of parseSourcetable
\* -------------------------------------------------------------------------
\* The lines of the answer, and those before the first ENDSOURCETABLE line.
AnswerLines == Split(stData, CRLF)

BeforeEnd(lines) ==
    LET ends == { i \in 1..Len(lines) : lines[i] = EndLine }
    IN  IF ends = {} THEN lines
        ELSE SubSeq(lines, 1, (CHOOSE i \in ends : \A j \in ends : i <= j) - 1)

\* Field i of a line, empty where the line has no such field.
FieldOf(line, i) ==
    LET fields == Split(line, <<";">>)
    IN  IF i + 1 <= Len(fields) THEN fields[i + 1] ELSE <<>>

MountOfLine(line) ==
    [Name |-> FieldOf(line, 1), Identifier |-> FieldOf(line, 2),
     Format |-> FieldOf(line, 3), FormatDetails |-> FieldOf(line, 4)]

\* One mountpoint for every line beginning STR;, in order.
RECURSIVE STRMounts(_)
STRMounts(lines) ==
    IF lines = <<>> THEN <<>>
    ELSE IF HasPrefix(Head(lines), STRPrefix)
         THEN <<MountOfLine(Head(lines))>> \o STRMounts(Tail(lines))
         ELSE STRMounts(Tail(lines))

\* C28: the sourcetable returned holds exactly one mountpoint per line
\* beginning STR; that stands before the ENDSOURCETABLE line, in order, with
\* name, identifier, format and format details from fields 1 to 4, and
\* nothing else.
C28_OneMountPerSTRLineBeforeEnd ==
    stTable # Nil => stTable.Mounts = STRMounts(BeforeEnd(AnswerLines))

\* -------------------------------------------------------------------------
\* Properties of StopMonitoring
\* -------------------------------------------------------------------------
\* C29: StopMonitoring stops all monitoring: a StopMonitoring that has not
\* returned has a monitoring goroutine left to take its signal, so that it
\* returns for zero, one or several goroutines; and once it has returned,
\* every goroutine started by MonitorNMEA has exited and the handler is not
\* invoked again.
C29_StopMonitoringStopsAll ==
    /\ stopMonitoring = "sending" =>
          \E g \in Monitors : monitor[g] \in {"select", "reading"}
    /\ stopMonitoring = "returned" =>
          /\ \A g \in Started : monitor[g] = "exited"
          /\ monHandled = monHandledAtStop

\* -------------------------------------------------------------------------
\* Properties of the mutex of the PositionAverager
\* -------------------------------------------------------------------------
\* C30: the averager's mutable state is only read and written with its mutex
\* held, also through the values its methods return: every method runs
\* under the mutex, so what remains is that no value a method has returned
\* to a caller refers to the histogram the averager keeps and updates.
C30_ReturnedValuesShareNoState ==
    /\ callerDist # 0 => callerDist # fixQualityDist
    /\ lastCall.op = "GetFixQualityDistribution" => ret.dist # fixQualityDist
    /\ (lastCall.op = "GetAveragedPosition" /\ ret.err = "") =>
          ret.stats.FixQualityDistribution # fixQualityDist

\* -------------------------------------------------------------------------
\* Properties of the PositionStats of GetAveragedPosition
\* -------------------------------------------------------------------------
\* C31: the PositionStats returned by GetAveragedPosition is a snapshot.  In
\* particular, while the caller still holds the stats of its last call, an
\* AddSample leaves the FixQualityDistribution of those stats as it was
\* returned.
C31_Step ==
    (lastCall.op = "GetAveragedPosition" /\ ret.err = "" /\ lastCall'.op = "AddSample") =>
        mapHeap'[ret.stats.FixQualityDistribution] = mapHeap[ret.stats.FixQualityDistribution]

C31_StatsIsSnapshot == [][C31_Step]_vars

\* -------------------------------------------------------------------------
\* Properties of the counts of the PositionAverager
\* -------------------------------------------------------------------------
\* The sum of the counts a histogram holds for the fix qualities qs.
RECURSIVE SumOver(_, _)
SumOver(m, qs) ==
    IF qs = {} THEN 0
    ELSE LET q == CHOOSE x \in qs : TRUE
         IN  m[q] + SumOver(m, qs \ {q})

\* C32: the counts of the histogram add up to the number of AddSample calls
\* since construction or the last Reset, and the number of samples held is
\* the sum of the counts for the fix qualities of at least minFixQuality.
C32_Counts ==
    /\ SumOver(Histogram, DOMAIN Histogram) = Len(avgLog)
    /\ Len(samples) =
          SumOver(Histogram, { q \in DOMAIN Histogram : q >= minFixQuality })
    /\ lastCall.op = "GetSampleCount" => ret.count = Len(samples)

\* The number of samples held only goes down in a Reset.
C32_Step == Len(samples') < Len(samples) => lastCall'.op = "Reset"

C32_HistogramAndSampleCounts == [](C32_Counts) /\ [][C32_Step]_vars

\* After a rejected and an accepted sample GetSampleCount says 1.
C32_Witness ==
    /\ lastCall.op = "GetSampleCount"
    /\ ret.count = 1
    /\ Len(avgLog) = 2
    /\ SumOver(Histogram, DOMAIN Histogram) = 2

\* -------------------------------------------------------------------------
\* Properties of the monitorSolutions goroutines
\* -------------------------------------------------------------------------
\* C33: at any time at most one monitorSolutions goroutine of the
\* RTKProcessor is active, whatever the order of the Start and Stop calls
\* and of the ticks.
C33_AtMostOneMonitor == rtkMonitors <= 1

\* -------------------------------------------------------------------------
\* Properties of the simulator GNSSReceiver
\* -------------------------------------------------------------------------
\* C34: whatever the sequence of Start, Stop and Close calls, no channel is
\* closed twice and nothing is sent on a closed channel: nothing panics.
C34_NoPanic == simPanic = "none"

\* C35: once Stop has closed stopChan, every generateData goroutine that has
\* not returned can go on by itself, without a Read making room in the
\* queue, so that it reaches its select, closes the queue and returns.
C35_StopEndsGenerator ==
    (simStopClosed /\ simPanic = "none") =>
        \A g \in Generators :
            generator[g] \in {"none", "exited"} \/ ENABLED GeneratorStep(g)

\* -------------------------------------------------------------------------
\* Properties of the RTKApp
\* -------------------------------------------------------------------------
\* C36: once Stop has returned, the loops of monitorConnection and
\* monitorSolutions make no further reconnection attempt, device read or
\* status update.
C36_Step ==
    appPhase = "stopped" =>
        UNCHANGED <<appReconnects, nmeaBuffer, appStatus, appReceived>>

C36_StopEndsLoops == [][C36_Step]_vars

\* The complete sentences received so far, and the status the most recent
\* GGA sentence among them gives.
ReceivedSentences ==
    LET lines == Split(appReceived, CRLF)
    IN  SubSeq(lines, 1, Len(lines) - 1)

RECURSIVE LastGGA(_, _)
LastGGA(lines, status) ==
    IF lines = <<>> THEN [status |-> status, found |-> FALSE]
    ELSE IF /\ HasPrefix(lines[Len(lines)], <<"$">>)
            /\ Contains(lines[Len(lines)], <<"G", "G", "A">>)
            /\ ParseGGA(lines[Len(lines)]).err = ""
         THEN [status |-> StatusFromGGA(status, ParseGGA(lines[Len(lines)]).data),
               found |-> TRUE]
         ELSE LastGGA(SubSeq(lines, 1, Len(lines) - 1), status)

\* C38: after processNMEAData has returned true, the status (fix name,
\* latitude, longitude, altitude, satellite count, HDOP, age) is that of the
\* most recent complete GGA sentence received so far.
C38_StatusOfMostRecentGGA ==
    appFound =>
        /\ LastGGA(ReceivedSentences, appStatus).found
        /\ appStatus = LastGGA(ReceivedSentences, appStatus).status

\* -------------------------------------------------------------------------
\* Properties of the position of getNtripPosition
\* -------------------------------------------------------------------------
\* C37: in getNtripPosition the collector goes to send a position on
\* positionChan only for a solution whose status is StatusFix; a solution
\* of any other status, float included, is not forwarded.
C37_Step ==
    (/\ session = "getNtripPosition"
     /\ goroutine.collector = "select"
     /\ goroutine'.collector = "send positionChan") =>
        Head(solutionChan).Status = StatusFix

C37_OnlyFixedForwarded == [][C37_Step]_vars

\* -------------------------------------------------------------------------
\* Properties of the bytes the parsers retain
\* -------------------------------------------------------------------------
\* The largest frames: 3 + 1023 + 3 bytes of RTCM3, 6 + 65535 + 2 of UBX.
MaxRTCMFrame == (3 * 256 + 255) + 6

MaxUBXFrame == (255 + 255 * 256) + 8

\* The length of the frame a retained buffer is waiting for.
RTCMPending(buf) ==
    IF Len(buf) < 6 THEN 6 ELSE ((buf[2] % 4) * 256 + buf[3]) + 6

UBXPending(buf) ==
    IF Len(buf) < 6 THEN 6 ELSE ((buf[5] + buf[6] * 256) % 65536) + 8

\* C39: when Process returns, the buffer holds either fewer bytes than a
\* header, or the start of one frame and fewer bytes than that frame has;
\* a frame has at most 1029 bytes (RTCM3) or 65543 bytes (UBX), so fewer
\* bytes than that are retained, whatever the input and its chunking.
C39_RetainedBelowOneFrame ==
    /\ Len(rtcmBuffer) < RTCMPending(rtcmBuffer)
    /\ Len(rtcmBuffer) >= 3 => rtcmBuffer[1] = 211
    /\ RTCMPending(rtcmBuffer) <= MaxRTCMFrame
    /\ Len(rtcmBuffer) < MaxRTCMFrame
    /\ Len(ubxBuffer) < UBXPending(ubxBuffer)
    /\ Len(ubxBuffer) >= 6 => (ubxBuffer[1] = 181 /\ ubxBuffer[2] = 98)
    /\ UBXPending(ubxBuffer) <= MaxUBXFrame
    /\ Len(ubxBuffer) < MaxUBXFrame

\* Process has returned with the first bytes of a frame retained, payload
\* bytes among them.
C39_Witness ==
    /\ pCalls >= 1
    /\ Len(rtcmBuffer) >= 6
    /\ rtcmEmitted # <<>>


\* ---------------------------------------------------------------------
\* Processor: what a Processor retains
\* ---------------------------------------------------------------------

\* The window processRTCMMessages keeps of the observation history, which is
\* also the capacity of the solution channel.
HistoryLimit == 10

\* C40: the state a Processor retains is bounded independently of the number
\* of updates it has processed: the input buffer is empty between calls, the
\* observation history and the solution channel hold at most HistoryLimit
\* entries, the message and ephemeris tables hold one entry per key, and
\* the stored solution history holds no more than HistoryLimit solutions
\* however many ProcessRTCM calls produced one.
C40_RetainedStateBounded ==
    /\ rtcmData = <<>>
    /\ Len(observations) <= HistoryLimit
    /\ Len(solutionChan) <= HistoryLimit
    /\ Len(solutions) <= HistoryLimit
====
